---- MODULE Spec2Model ----
(***************************************************************************)
(* Verification model of the Unified Media Manager (umm).                  *)
(*                                                                         *)
(*  - the concurrent download / post-processing pipeline of                *)
(*    media_manager.py (_process_movies_pipeline, _download_task,           *)
(*    _increment_failures) on two ThreadPoolExecutors;                      *)
(*  - the retry loop of DownloaderService.download_trailer;                 *)
(*  - the Sanitizer of services/sanitizer_service.py;                       *)
(*  - the top-level actions that run the pipeline around the               *)
(*    known-failures cache (load, pipeline, save, cache clear);             *)
(*  - the junk-word learner of services/junk_service.py;                    *)
(*  - the functions without state (_parse_filename,                        *)
(*    _parse_normalized_filename, prepare_movie_folder_name,               *)
(*    get_trailer_key), each called on its own;                            *)
(*  - sync_trailers_with_library of media_manager.py;                      *)
(*  - the unlocked counters of _ffmpeg_task, statement by statement.       *)
(***************************************************************************)
EXTENDS Integers, Sequences, FiniteSets, TLC

\* ------------------------------------------------------------------ bounds
\* Number of movies handed to one pipeline invocation.
NMovies == 6
\* Number of successive download_trailer calls followed in SpecDl.
MaxDlCalls == 3
\* Number of files in the library before the first Sanitizer run.
MaxFiles == 3
\* Number of successive Sanitizer runs.
MaxRuns == 2
\* Number of successive top-level actions of one MediaManager.
MaxInvocations == 3
\* Largest number of files carrying a given tag in a library the junk-word
\* learner is run on.
MaxTagged == 3
\* Largest number of files of the other kinds in such a library.
MaxPlain == 10
\* Largest number of pieces a file name or a title handed to a function
\* called on its own is made of.
MaxPieces == 3
\* Largest number of entries of a videos response.
MaxVideos == 3
\* Movies whose post-processing jobs are followed statement by statement.
MaxEncoded == 2

\* ------------------------------------------------------- program constants
\* config.py:20  DEFAULT_CONFIG["MAX_DOWNLOAD_WORKERS"]
MaxDownloadWorkers == 4
\* config.py:21  DEFAULT_CONFIG["MAX_FFMPEG_WORKERS"]
MaxFfmpegWorkers == 4
\* media_manager.py:411  "if self.failures >= 5"
FailureLimit == 5
\* downloader_service.py:16  "for attempt in range(1, 4)"
MaxAttempts == 3

Movies == 1..NMovies

VARIABLES
  \* ---- MediaManager / pipeline state
  failures,        \* MediaManager.failures
  known_failures,  \* MediaManager.known_failures (set of movie ids)
  dry_run,         \* value returned by is_dry_run()
  create_backdrop, \* cfg["CREATE_BACKDROP"]
  ignore_failures, \* args.ignore_failures, the --ignore-failures flag
  root_under_cwd,  \* whether the download folder lies below Path.cwd()
  env,             \* what the catalog and the download tool answer for each movie
  fut,             \* download future of each movie: its state in dl_pool
  mainpc,          \* position of the thread running _process_movies_pipeline
  consumed,        \* futures already yielded by as_completed
  ff_shutdown,     \* ff_pool._shutdown
  ff_queue,        \* ff_pool work queue (FIFO) of <<movie, task_type>>
  ff_running,      \* post-processing jobs being executed
  ff_done,         \* post-processing jobs finished
  \* ---- observation (history) of the pipeline run
  tripped,         \* _increment_failures has raised
  pendingAtTrip,   \* futures still pending when it first raised
  broke,           \* the collector took the "except RuntimeError" branch
  pendingAtBreak,  \* futures pending when the collector cancelled them
  dlFailed,        \* movies whose download failed terminally (3 attempts)
  dlSucceeded,     \* movies whose download_trailer returned True
  \* ---- one call of DownloaderService.download_trailer, step by step
  dl,              \* [pc, attempt, calls, results, sleeps, cb, ret]
  dlCallNo,        \* number of the call being followed
  \* ---- the known-failures cache and the top-level actions using it
  failures_file,   \* known_failures.json: [exists, ids]
  file_before,     \* failures_file when the current top-level action started
  writes,          \* writes of failures_file by the current top-level action
  invocation,      \* number of top-level actions started so far
  \* ---- the library on the disk
  files,           \* paths of the files below the library root
  dirs,            \* paths of the folders below the library root
  index_file,      \* content of library.json: movie id -> [title, year, file_path]
  junk_cache,      \* junk_cache.json: [exists, readable, words]
  \* ---- SanitizerService.run
  san_pc,          \* position of the thread running run()
  junk_words,      \* local junk_words
  library_cache,   \* local library_cache
  video_files,     \* files of the scan not yet processed
  operations,      \* local operations
  op_next,         \* index of the next operation to execute
  cache_updated_with_clean_files,
  \* ---- observation (history) of the Sanitizer runs
  outcomes,        \* what the current run decided for each file, in scan order
  run_log,         \* per finished run: [nops, executed, declined]
  scanned_disk,    \* <<files, dirs>> as they were when the current run started
  answer,          \* what the user typed at the prompt of the current run
  op_log,          \* how each executed operation of the current run ended
  \* one function of the services called on its own
  call,            \* the arguments: [filename, junk_words, title, release_date, videos]
  returned,        \* what each function called so far returned, by function
  \* the counters of _ffmpeg_task followed statement by statement
  stats,           \* self.stats: [placeholders, backdrops]
  ff_task          \* per post-processing job: [pc, ok, loaded] of the worker running it

pipeVars == <<failures, known_failures, dry_run, create_backdrop, ignore_failures, root_under_cwd, env, fut, mainpc,
              consumed, ff_shutdown, ff_queue, ff_running, ff_done, tripped,
              pendingAtTrip, broke, pendingAtBreak, dlFailed,
              dlSucceeded>>

dlVars == <<dl, dlCallNo>>

sanVars == <<files, dirs, index_file, junk_cache, san_pc, junk_words, library_cache,
             video_files, operations, op_next, cache_updated_with_clean_files,
             outcomes, run_log, scanned_disk, answer, op_log>>

appVars == <<failures_file, file_before, writes, invocation>>

fnVars == <<call, returned>>

statVars == <<stats, ff_task>>

vars == <<pipeVars, dlVars, sanVars, appVars, fnVars, statVars>>

\* media_manager.py:32: the counters as __init__ sets them; no job is followed.
StatsAtRest ==
  /\ stats = [placeholders |-> 0, backdrops |-> 0]
  /\ ff_task = <<>>

\* No function is called on its own.
FnAtRest ==
  /\ call = [filename |-> <<>>, junk_words |-> {}, title |-> <<>>,
             release_date |-> <<>>, videos |-> <<>>]
  /\ returned = <<>>

\* No known-failures file, no top-level action started.
NoFile == [exists |-> FALSE, ids |-> {}]

AppAtRest ==
  /\ failures_file = NoFile
  /\ file_before = NoFile
  /\ writes = 0
  /\ invocation = 0

\* The value of answer while the prompt of the run has not been answered.
NotAsked == <<"not asked">>

\* The Sanitizer has not been started and the library is empty.
SanAtRest ==
  /\ files = {} /\ dirs = {}
  /\ index_file = <<>>
  /\ junk_cache = [exists |-> FALSE, readable |-> FALSE, words |-> {}]
  /\ san_pc = "idle"
  /\ junk_words = {}
  /\ library_cache = <<>>
  /\ video_files = <<>>
  /\ operations = <<>>
  /\ op_next = 1
  /\ cache_updated_with_clean_files = FALSE
  /\ outcomes = <<>>
  /\ run_log = <<>>
  /\ scanned_disk = <<{}, {}>>
  /\ answer = NotAsked
  /\ op_log = <<>>

\* --------------------------------------------------------------- futures
\* States of a download future.  "running": inside download_trailer;
\* "submit2": placeholder job submitted, backdrop submit still to come.
ResultStates == {"r_known", "r_dry", "r_nokey", "r_failed", "r_ok"}
RaisedStates == {"x_budget", "x_submit", "x_other"}
FinishedStates == ResultStates \cup RaisedStates \cup {"cancelled"}
ExecutingStates == {"running", "submit2"}

\* Movies not handed to the current pipeline invocation have the state "none".
Submitted == {i \in Movies : fut[i] # "none"}
Executing == {i \in Movies : fut[i] \in ExecutingStates}
Pending == {i \in Movies : fut[i] = "pending"}

\* -------------------------------------------- DownloaderService.download_trailer
\* The state of one call: pc is the position in the code,
\*   "invoke"  line 28, about to run the tool for attempt `attempt`
\*   "backoff" lines 34-39, the attempt failed and attempt < 3
\*   "giveup"  lines 41-42, the loop ended without success
\*   "done"    the call has returned (ret "true" / "false") or the callback
\*             raised through it (ret "raised")
\* calls counts the tool invocations, results their outcomes, sleeps the
\* waits taken (seconds), cb the invocations of failure_callback.
DlStart ==
  [pc |-> "invoke", attempt |-> 1, calls |-> 0, results |-> <<>>,
   sleeps |-> <<>>, cb |-> 0, ret |-> "none"]

BackoffAfterThirdToo(attempt) == attempt <= MaxAttempts

\* Line 34: "if attempt < 3" guards the backoff.
BackoffAfter(attempt) == attempt < MaxAttempts

\* Lines 28-34: run the tool once; ok is its result.
DlInvoke(d, ok) ==
  LET called == [d EXCEPT !.calls = @ + 1, !.results = Append(@, ok)] IN
  IF ok THEN [called EXCEPT !.pc = "done", !.ret = "true"]
  ELSE IF BackoffAfter(d.attempt) THEN [called EXCEPT !.pc = "backoff"]
  ELSE IF d.attempt + 1 <= MaxAttempts THEN [called EXCEPT !.attempt = @ + 1]
  ELSE [called EXCEPT !.pc = "giveup"]

\* Lines 35-39: wait attempt * 2 seconds, then the next attempt.
DlBackoff(d) ==
  LET slept == [d EXCEPT !.sleeps = Append(@, d.attempt * 2)] IN
  IF d.attempt + 1 <= MaxAttempts
    THEN [slept EXCEPT !.attempt = @ + 1, !.pc = "invoke"]
    ELSE [slept EXCEPT !.pc = "giveup"]

\* Lines 41-43: call failure_callback, return False unless it raised.
DlGiveUp(d, raised) ==
  [d EXCEPT !.cb = @ + 1, !.pc = "done", !.ret = IF raised THEN "raised" ELSE "false"]

\* One step of the call for the tool results `results`, the callback
\* returning.
DlAdvance(d, results) ==
  IF d.pc = "done" THEN d
  ELSE IF d.pc = "invoke" THEN DlInvoke(d, results[d.attempt])
  ELSE IF d.pc = "backoff" THEN DlBackoff(d)
  ELSE DlGiveUp(d, FALSE)

\* The whole call: at most MaxAttempts invocations, each followed by a
\* backoff or by the final callback.
DlRun(results) ==
  LET run[n \in 0..(2 * MaxAttempts)] ==
        IF n = 0 THEN DlStart ELSE DlAdvance(run[n - 1], results)
  IN run[2 * MaxAttempts]

ToolResults == [1..MaxAttempts -> BOOLEAN]

DownloadTrailer(results) == DlRun(results)

\* The records a finished call can leave, over all the tool's results.
DownloadOutcomes == {DownloadTrailer(r) : r \in ToolResults}

\* ------------------------------------------------------------ environment
\* What the persisted state and the external collaborators hold for each
\* movie of one run:
\*   "known"   the id is in the known-failures file loaded before the run
\*   "nokey"   the catalog answers, with no eligible trailer:
\*             get_trailer_key returns None
\*   "neterror" the request of get_trailer_key fails (requests.RequestException):
\*             get_trailer_key returns None too (tmdb_service.py:113-115)
\*   "oserror" paths.root.mkdir raises OSError
\*   "fail"    the download tool fails on every attempt
\*   "ok"      the download tool succeeds within the attempts
EnvKinds == {"known", "nokey", "neterror", "oserror", "fail", "ok"}
Environments ==
  { [i \in Movies |-> "fail"],
    [i \in Movies |-> IF i = NMovies THEN "ok" ELSE "fail"],
    [i \in Movies |-> IF i = 1 THEN "ok" ELSE "fail"],
    [i \in Movies |-> IF i \in {2, 3} THEN "ok" ELSE "fail"],
    [i \in Movies |-> IF i = 1 THEN "known" ELSE IF i = 2 THEN "nokey"
                       ELSE IF i = 3 THEN "oserror" ELSE IF i = 4 THEN "ok"
                       ELSE "fail"],
    [i \in Movies |-> IF i % 2 = 1 THEN "neterror" ELSE "nokey"] }

\* ------------------------------------------------------------------ Init
PipeInit ==
  /\ failures = 0
  /\ env \in Environments
  /\ known_failures = {i \in Movies : env[i] = "known"}
  /\ dry_run \in BOOLEAN
  /\ create_backdrop \in BOOLEAN
  /\ ignore_failures \in BOOLEAN
  /\ root_under_cwd \in (IF dry_run THEN BOOLEAN ELSE {TRUE})
  /\ fut = [i \in Movies |-> "pending"]
  /\ mainpc = "collect"
  /\ consumed = {}
  /\ ff_shutdown = FALSE
  /\ ff_queue = <<>>
  /\ ff_running = {}
  /\ ff_done = {}
  /\ tripped = FALSE
  /\ pendingAtTrip = {}
  /\ broke = FALSE
  /\ pendingAtBreak = {}
  /\ dlFailed = {}
  /\ dlSucceeded = {}
  /\ dl = DlStart
  /\ dlCallNo = 0
  /\ FnAtRest
  /\ StatsAtRest
  /\ SanAtRest
  /\ failures_file = [exists |-> known_failures # {}, ids |-> known_failures]
  /\ file_before = failures_file
  /\ writes = 0
  /\ invocation = 1

IncrementFailuresAtLimitOnly(f) == [value |-> f + 1, raise |-> (f + 1 = FailureLimit)]

\* ------------------------------------------- MediaManager._increment_failures
\* Under failure_lock: increment, then raise when the limit is reached.
IncrementFailures(f) == [value |-> f + 1, raise |-> (f + 1 >= FailureLimit)]

\* ------------------------------------------------ ThreadPoolExecutor.submit
\* ff_pool.submit: raises RuntimeError once the pool has been shut down.
SubmitAccepted(shutdown) == ~shutdown

CancelNone(f) == f

\* Future.cancel() on every download future (lines 515-516): only a pending
\* future can be cancelled.
CancelAll(f) == [i \in Movies |-> IF f[i] = "pending" THEN "cancelled" ELSE f[i]]

\* The work queue of dl_pool is FIFO: a worker takes the oldest pending item.
NextPending(i) == fut[i] = "pending" /\ \A j \in Movies : j < i => fut[j] # "pending"

histUnchanged == UNCHANGED <<tripped, pendingAtTrip, broke, pendingAtBreak>>
ffUnchanged == UNCHANGED <<ff_shutdown, ff_queue, ff_running, ff_done>>
cfgUnchanged == UNCHANGED <<dry_run, create_backdrop, ignore_failures, root_under_cwd, env, dl, dlCallNo>>

\* ------------------------------------------------ MediaManager._download_task
IsKnownFailureNever(i, known) == FALSE

\* Line 533: "if movie_id in self.known_failures"
IsKnownFailure(i, known) == i \in known

\* Line 543: the log line evaluates paths.root.relative_to(Path.cwd()),
\* which raises ValueError unless the download folder lies below the
\* working directory.
RelativeToRaises == ~root_under_cwd

NoTrailerKeyNever(i) == FALSE

\* Lines 547-548: get_trailer_key returned nothing, "if not trailer_key";
\* it returns None for no eligible trailer (tmdb_service.py:111) and for a
\* failed request (tmdb_service.py:113-115).
NoTrailerKey(i) == env[i] \in {"nokey", "neterror"}

\* A dl_pool worker takes the work item of movie i and runs _download_task up
\* to the call of download_trailer (lines 527-554).
TaskStart(i) ==
  /\ NextPending(i)
  /\ Cardinality(Executing) < MaxDownloadWorkers
  /\ IF IsKnownFailure(i, known_failures)
       THEN /\ fut' = [fut EXCEPT ![i] = "r_known"]
            /\ UNCHANGED known_failures
     ELSE IF dry_run
       THEN /\ fut' = [fut EXCEPT ![i] = IF RelativeToRaises THEN "x_other" ELSE "r_dry"]
            /\ UNCHANGED known_failures
     ELSE IF NoTrailerKey(i)
       THEN /\ known_failures' = known_failures \cup {i}
            /\ fut' = [fut EXCEPT ![i] = "r_nokey"]
     ELSE IF env[i] = "oserror"
       THEN /\ fut' = [fut EXCEPT ![i] = "x_other"]
            /\ UNCHANGED known_failures
     ELSE /\ fut' = [fut EXCEPT ![i] = "running"]
          /\ UNCHANGED known_failures
  /\ UNCHANGED <<failures, mainpc, consumed, dlFailed, dlSucceeded>>
  /\ histUnchanged /\ ffUnchanged /\ cfgUnchanged

DownloadOkUnchecked(d) == TRUE

\* Line 562: "if not download_ok" decides between the two continuations.
DownloadOk(d) == d.ret = "true"

\* download_trailer returns for movie i after the tool results `results`;
\* _download_task continues to its next access of shared state
\* (lines 555-568 and downloader_service.py:41-43).
TaskDownloadDone(i, d) ==
  LET inc == IncrementFailures(failures)
  IN
  /\ fut[i] = "running"
  /\ (d.ret = "true") <=> (env[i] = "ok")
  /\ dlSucceeded' = IF d.ret = "true" THEN dlSucceeded \cup {i} ELSE dlSucceeded
  /\ dlFailed' = IF d.ret = "false" THEN dlFailed \cup {i} ELSE dlFailed
  /\ failures' = IF d.cb > 0 THEN inc.value ELSE failures
  /\ IF d.cb > 0 /\ inc.raise
       THEN \* the callback raised inside download_trailer
            /\ fut' = [fut EXCEPT ![i] = "x_budget"]
            /\ tripped' = TRUE
            /\ pendingAtTrip' = IF tripped THEN pendingAtTrip ELSE Pending
            /\ UNCHANGED <<known_failures, ff_queue>>
     ELSE IF ~DownloadOk(d)
       THEN /\ known_failures' = known_failures \cup {i}
            /\ fut' = [fut EXCEPT ![i] = "r_failed"]
            /\ UNCHANGED <<tripped, pendingAtTrip, ff_queue>>
     ELSE IF SubmitAccepted(ff_shutdown)
       THEN /\ ff_queue' = Append(ff_queue, <<i, "placeholder">>)
            /\ fut' = [fut EXCEPT ![i] = IF create_backdrop THEN "submit2" ELSE "r_ok"]
            /\ UNCHANGED <<known_failures, tripped, pendingAtTrip>>
     ELSE /\ fut' = [fut EXCEPT ![i] = "x_submit"]
          /\ UNCHANGED <<known_failures, tripped, pendingAtTrip, ff_queue>>
  /\ UNCHANGED <<mainpc, consumed, ff_shutdown, ff_running, ff_done>>
  /\ UNCHANGED <<broke, pendingAtBreak>>
  /\ cfgUnchanged

\* Lines 569-571: the backdrop job is submitted, the result returned.
TaskSubmitBackdrop(i) ==
  /\ fut[i] = "submit2"
  /\ IF SubmitAccepted(ff_shutdown)
       THEN /\ ff_queue' = Append(ff_queue, <<i, "backdrop">>)
            /\ fut' = [fut EXCEPT ![i] = "r_ok"]
       ELSE /\ fut' = [fut EXCEPT ![i] = "x_submit"]
            /\ UNCHANGED ff_queue
  /\ UNCHANGED <<failures, known_failures, mainpc, consumed, dlFailed, dlSucceeded>>
  /\ UNCHANGED <<ff_shutdown, ff_running, ff_done>>
  /\ histUnchanged /\ cfgUnchanged

\* --------------------------------------------------- MediaManager._ffmpeg_task
\* An ff_pool worker takes the oldest queued job.
FfStart ==
  /\ ff_queue # <<>>
  /\ Cardinality(ff_running) < MaxFfmpegWorkers
  /\ ff_running' = ff_running \cup {Head(ff_queue)}
  /\ ff_queue' = Tail(ff_queue)
  /\ UNCHANGED <<failures, known_failures, fut, mainpc, consumed, ff_shutdown, ff_done, dlFailed, dlSucceeded>>
  /\ histUnchanged /\ cfgUnchanged

\* The encoder invocation of job j returns.
FfFinish(j) ==
  /\ j \in ff_running
  /\ ff_running' = ff_running \ {j}
  /\ ff_done' = ff_done \cup {j}
  /\ UNCHANGED <<failures, known_failures, fut, mainpc, consumed, ff_shutdown, ff_queue, dlFailed, dlSucceeded>>
  /\ histUnchanged /\ cfgUnchanged

\* ------------------------------------- MediaManager._process_movies_pipeline
\* One iteration of "for future in as_completed(download_futures)".
MainCollect(i) ==
  /\ mainpc = "collect"
  /\ i \notin consumed
  /\ fut[i] \in FinishedStates
  /\ consumed' = consumed \cup {i}
  /\ IF fut[i] \in {"x_budget", "x_submit"}
       THEN /\ fut' = CancelAll(fut)
            /\ broke' = TRUE
            /\ pendingAtBreak' = Pending
            /\ mainpc' = "after_loop"
       ELSE /\ UNCHANGED <<fut, broke, pendingAtBreak, mainpc>>
  /\ UNCHANGED <<failures, known_failures, dlFailed, dlSucceeded, tripped, pendingAtTrip>>
  /\ ffUnchanged /\ cfgUnchanged

\* Line 524: ff_pool.shutdown(wait=True) marks the pool shut down ...
MainFfShutdown ==
  /\ \/ mainpc = "after_loop"
     \/ mainpc = "collect" /\ consumed = Submitted
  /\ ff_shutdown' = TRUE
  /\ mainpc' = "ff_join"
  /\ UNCHANGED <<failures, known_failures, fut, consumed, ff_queue, ff_running, ff_done, dlFailed, dlSucceeded>>
  /\ histUnchanged /\ cfgUnchanged

\* ... and returns when the ff_pool workers have drained the queue.
MainFfJoin ==
  /\ mainpc = "ff_join"
  /\ ff_queue = <<>> /\ ff_running = {}
  /\ mainpc' = "dl_join"
  /\ UNCHANGED <<failures, known_failures, fut, consumed, dlFailed, dlSucceeded>>
  /\ histUnchanged /\ ffUnchanged /\ cfgUnchanged

DlPoolNotWaitedFor == TRUE

\* dl_pool.shutdown(wait=True) returns when no download work item is queued
\* or running.
DlPoolJoined == Executing = {} /\ Pending = {}

\* Exit of "with ... as dl_pool" (line 488).
MainDlJoin ==
  /\ mainpc = "dl_join"
  /\ DlPoolJoined
  /\ mainpc' = "returned"
  /\ UNCHANGED <<failures, known_failures, fut, consumed, dlFailed, dlSucceeded>>
  /\ histUnchanged /\ ffUnchanged /\ cfgUnchanged

PipeNext ==
  /\ \/ \E i \in Movies : TaskStart(i)
     \/ \E i \in Movies, d \in DownloadOutcomes : TaskDownloadDone(i, d)
     \/ \E i \in Movies : TaskSubmitBackdrop(i)
     \/ FfStart
     \/ \E j \in ff_running : FfFinish(j)
     \/ \E i \in Movies : MainCollect(i)
     \/ MainFfShutdown
     \/ MainFfJoin
     \/ MainDlJoin
  /\ UNCHANGED <<sanVars, appVars, fnVars, statVars>>

SpecPipe == PipeInit /\ [][PipeNext]_vars

\* Post-processing jobs the ff_pool has accepted so far.
FfAccepted == {ff_queue[k] : k \in DOMAIN ff_queue} \cup ff_running \cup ff_done

\* ======================================================== pipeline claims

\* C1: under every interleaving of the download tasks of one pipeline
\* invocation, the failure counter never exceeds 5.
C1_FailuresNeverExceedLimit == failures <= FailureLimit

\* C2 (as stated): once _increment_failures has raised, no download task
\* that was not yet started at that moment ever starts.
C2_NoStartAfterTrip ==
  tripped => \A i \in pendingAtTrip : fut[i] \in {"pending", "cancelled"}

\* C2 (amended): once the collecting thread has handled the fatal condition
\* by cancelling the futures (lines 515-516), every task that was still
\* pending at that moment stays cancelled and never starts; only those tasks
\* are cancelled, so a task that was executing runs to completion and has
\* finished when the pipeline returns.
C2_NoStartAfterCancel ==
  /\ broke => \A i \in pendingAtBreak : fut[i] = "cancelled"
  /\ \A i \in Movies : fut[i] = "cancelled" => broke /\ i \in pendingAtBreak
  /\ mainpc = "returned" => \A i \in Movies : fut[i] \in FinishedStates

C2_Witness ==
  /\ broke /\ mainpc = "returned"
  /\ pendingAtBreak # {}

\* C4: every movie whose download failed terminally (all 3 attempts) in
\* non-simulation mode is in the known-failures set when the pipeline
\* returns, whatever the failure counter was.
C4_TerminalFailureIsKnown ==
  mainpc = "returned" => \A i \in dlFailed : i \in known_failures

\* C5: for every movie whose download succeeded a placeholder job is queued,
\* and a backdrop job is queued iff CREATE_BACKDROP is enabled.
C5_SuccessQueuesJobs ==
  \A i \in dlSucceeded :
    fut[i] \in FinishedStates =>
      /\ <<i, "placeholder">> \in FfAccepted
      /\ (<<i, "backdrop">> \in FfAccepted) <=> create_backdrop

\* C6: a post-processing job is enqueued only for a movie whose download has
\* succeeded; never for a skipped movie, one without trailer key or one whose
\* download failed.
C6_PostProcessingOnlyAfterSuccess ==
  \A j \in FfAccepted :
    /\ j[1] \in dlSucceeded
    /\ fut[j[1]] \notin {"pending", "running", "cancelled", "r_known", "r_dry",
                         "r_nokey", "r_failed", "x_other", "x_budget"}

C6_Witness ==
  /\ FfAccepted # {}
  /\ \E i \in Movies : fut[i] = "r_failed"
  /\ \E i \in Movies : fut[i] \in {"r_nokey", "r_known"}

\* C7: the pipeline always terminates, and when it has returned no download
\* task is executing or runnable and every accepted post-processing job has
\* finished.  Termination is stated by a variant: as long as the pipeline
\* has not returned some thread can take a step (every tool invocation
\* returns), and every step decreases PipeMeasure, a natural number.
PipeQuiescent ==
  /\ \A i \in Movies : fut[i] \in FinishedStates
  /\ ff_queue = <<>> /\ ff_running = {}

MainRank(pc) ==
  IF pc = "collect" THEN 4 ELSE IF pc = "after_loop" THEN 3
  ELSE IF pc = "ff_join" THEN 2 ELSE IF pc = "dl_join" THEN 1 ELSE 0

PipeMeasure ==
  8 * Cardinality(Pending)
  + 7 * Cardinality({i \in Movies : fut[i] = "running"})
  + 3 * Cardinality({i \in Movies : fut[i] = "submit2"})
  + Cardinality(Movies \ consumed) + MainRank(mainpc)
  + 2 * Len(ff_queue) + Cardinality(ff_running)

C7_TerminatesQuiescent ==
  /\ [](mainpc = "returned" => PipeQuiescent)
  /\ [](mainpc # "returned" => ENABLED PipeNext)
  /\ [][PipeMeasure' < PipeMeasure]_vars

C7_Witness ==
  /\ mainpc = "returned" /\ broke
  /\ ff_done # {}
  /\ \E i \in Movies : fut[i] \in {"cancelled", "x_submit"}

\* ================================== download_trailer followed step by step
\* The pipeline stands still; failure_callback is _increment_failures, and
\* failures starts at any value earlier downloads may have left.
pipeIdle ==
  UNCHANGED <<known_failures, dry_run, create_backdrop, ignore_failures, root_under_cwd, env, fut, mainpc,
              consumed, ff_shutdown, ff_queue, ff_running, ff_done, tripped,
              pendingAtTrip, broke, pendingAtBreak, dlFailed, dlSucceeded>>

DlInit ==
  /\ failures \in 0..FailureLimit
  /\ env = [i \in Movies |-> "fail"]
  /\ known_failures = {}
  /\ dry_run = FALSE
  /\ create_backdrop = FALSE
  /\ ignore_failures = FALSE
  /\ root_under_cwd = TRUE
  /\ fut = [i \in Movies |-> "cancelled"]
  /\ mainpc = "returned"
  /\ consumed = {}
  /\ ff_shutdown = TRUE
  /\ ff_queue = <<>>
  /\ ff_running = {}
  /\ ff_done = {}
  /\ tripped = FALSE
  /\ pendingAtTrip = {}
  /\ broke = FALSE
  /\ pendingAtBreak = {}
  /\ dlFailed = {}
  /\ dlSucceeded = {}
  /\ dl = DlStart
  /\ dlCallNo = 1
  /\ FnAtRest
  /\ StatsAtRest
  /\ SanAtRest
  /\ AppAtRest

\* run_subprocess returns for the current attempt.
DlToolReturns(ok) ==
  /\ dl.pc = "invoke"
  /\ dl' = DlInvoke(dl, ok)
  /\ UNCHANGED <<failures, dlCallNo>>
  /\ pipeIdle

\* time.sleep(wait_time) returns.
DlSleepReturns ==
  /\ dl.pc = "backoff"
  /\ dl' = DlBackoff(dl)
  /\ UNCHANGED <<failures, dlCallNo>>
  /\ pipeIdle

\* failure_callback() is called and download_trailer ends.
DlCallback ==
  /\ dl.pc = "giveup"
  /\ failures' = IncrementFailures(failures).value
  /\ dl' = DlGiveUp(dl, IncrementFailures(failures).raise)
  /\ UNCHANGED dlCallNo
  /\ pipeIdle

\* The next call of download_trailer begins.
DlNextCall ==
  /\ dl.pc = "done"
  /\ dlCallNo < MaxDlCalls
  /\ dl' = DlStart
  /\ dlCallNo' = dlCallNo + 1
  /\ UNCHANGED failures
  /\ pipeIdle

DlNext ==
  /\ \/ \E ok \in BOOLEAN : DlToolReturns(ok)
     \/ DlSleepReturns
     \/ DlCallback
     \/ DlNextCall
  /\ UNCHANGED <<sanVars, appVars, fnVars, statVars>>

SpecDl == DlInit /\ [][DlNext]_vars

\* C3: in every call of download_trailer the tool is invoked at most 3 times;
\* invocation stops at the first success, which returns true without calling
\* the failure callback; when every invocation fails there are exactly 3 and
\* the callback is called exactly once, after the third; a backoff of
\* attempt * 2 seconds is taken after attempt 1 and after attempt 2 only.
AllFalse(r) == \A k \in DOMAIN r : ~r[k]

C3_RetryCeiling ==
  /\ dl.calls <= 3 /\ dl.calls = Len(dl.results)
  /\ AllFalse(SubSeq(dl.results, 1, Len(dl.results) - 1))
  /\ (dl.results # <<>> /\ dl.results[Len(dl.results)])
       => dl.pc = "done" /\ dl.ret = "true" /\ dl.cb = 0
  /\ dl.ret = "true" => dl.results # <<>> /\ dl.results[Len(dl.results)]
  /\ (dl.pc = "done" /\ AllFalse(dl.results))
       => dl.calls = 3 /\ dl.cb = 1 /\ dl.ret \in {"false", "raised"}
  /\ dl.cb > 0 => dl.calls = 3 /\ dl.pc = "done" /\ dl.cb = 1
  /\ \A k \in DOMAIN dl.sleeps : k < 3 /\ dl.sleeps[k] = 2 * k
  /\ Len(dl.sleeps) = (IF dl.pc = "invoke" THEN dl.calls ELSE dl.calls - 1)

C3_Witness ==
  /\ dl.pc = "done" /\ dl.calls = 3 /\ dl.cb = 1 /\ dl.sleeps = <<2, 4>>
  /\ dlCallNo > 1

\* ================================================================ Sanitizer
\* File names are sequences of one-character strings, so that the regular
\* expressions and string methods of the code are computed character by
\* character.  A path is the sequence of its names below the library root
\* (fs_manager.download_folder), the root itself being <<>>.  The file
\* system is a POSIX one: names are case-sensitive and a rename replaces an
\* existing file.

Digits == {"0", "1", "2", "3", "4", "5", "6", "7", "8", "9"}
Uppers == <<"A", "B", "C", "D", "E", "F", "G", "H", "I", "J", "K", "L", "M", "N", "O", "P", "Q", "R", "S", "T", "U", "V", "W", "X", "Y", "Z">>
Lowers == <<"a", "b", "c", "d", "e", "f", "g", "h", "i", "j", "k", "l", "m", "n", "o", "p", "q", "r", "s", "t", "u", "v", "w", "x", "y", "z">>
Range(s) == {s[k] : k \in DOMAIN s}

\* str.lower()
LowerChar(c) ==
  IF \E k \in DOMAIN Uppers : Uppers[k] = c
    THEN Lowers[CHOOSE k \in DOMAIN Uppers : Uppers[k] = c]
    ELSE c
Lower(s) == [k \in DOMAIN s |-> LowerChar(s[k])]

\* \w, \s and \d of the re module, on the characters used here
IsWordChar(c) == c \in Digits \cup Range(Uppers) \cup Range(Lowers) \cup {"_"}
IsSpace(c) == c = " "
\* str.isdigit()
IsDigits(s) == s # <<>> /\ \A k \in DOMAIN s : s[k] \in Digits

\* int() of a string of digits
DigitVal(c) == CHOOSE v \in 0..9 : <<"0", "1", "2", "3", "4", "5", "6", "7", "8", "9">>[v + 1] = c
RECURSIVE ToInt(_)
ToInt(s) == IF s = <<>> THEN 0 ELSE 10 * ToInt(SubSeq(s, 1, Len(s) - 1)) + DigitVal(s[Len(s)])

\* "sub in s"
Contains(s, sub) ==
  \E i \in 1..(Len(s) - Len(sub) + 1) : SubSeq(s, i, i + Len(sub) - 1) = sub

\* str.strip()
RECURSIVE Strip(_)
Strip(s) ==
  IF s = <<>> THEN s
  ELSE IF IsSpace(s[1]) THEN Strip(Tail(s))
  ELSE IF IsSpace(s[Len(s)]) THEN Strip(SubSeq(s, 1, Len(s) - 1))
  ELSE s

\* str.split(): the maximal runs of non-whitespace characters
RECURSIVE Split(_)
Split(s) ==
  IF s = <<>> THEN <<>>
  ELSE IF IsSpace(s[1]) THEN Split(Tail(s))
  ELSE LET stops == {k \in DOMAIN s : IsSpace(s[k])}
           e == IF stops = {} THEN Len(s) + 1 ELSE CHOOSE k \in stops : \A j \in stops : k <= j
       IN <<SubSeq(s, 1, e - 1)>> \o Split(SubSeq(s, e, Len(s)))

\* " ".join(tokens)
RECURSIVE Join(_)
Join(tokens) ==
  IF tokens = <<>> THEN <<>>
  ELSE IF Len(tokens) = 1 THEN tokens[1]
  ELSE tokens[1] \o <<" ">> \o Join(Tail(tokens))

\* pathlib: PurePath.suffix and PurePath.stem of a file name
LastDot(name) ==
  LET dots == {k \in DOMAIN name : name[k] = "."}
  IN IF dots = {} THEN 0 ELSE CHOOSE k \in dots : \A j \in dots : j <= k
HasSuffix(name) == 1 < LastDot(name) /\ LastDot(name) < Len(name)
Suffix(name) == IF HasSuffix(name) THEN SubSeq(name, LastDot(name), Len(name)) ELSE <<>>
Stem(name) == IF HasSuffix(name) THEN SubSeq(name, 1, LastDot(name) - 1) ELSE name

\* pathlib: parent, name and parent.name of a path below the root
RootName == <<"m", "o", "v", "i", "e", "s">>
Root == <<>>
Parent(path) == SubSeq(path, 1, Len(path) - 1)
Name(path) == path[Len(path)]
ParentName(path) == IF Len(path) = 1 THEN RootName ELSE path[Len(path) - 1]
IsUnder(path, folder) ==
  Len(path) > Len(folder) /\ SubSeq(path, 1, Len(folder)) = folder

\* sanitizer_service.py:32
video_extensions ==
  {<<".", "m", "k", "v">>, <<".", "m", "p", "4">>, <<".", "a", "v", "i">>,
   <<".", "m", "o", "v">>, <<".", "w", "m", "v">>, <<".", "f", "l", "v">>}

\* sanitizer_service.py:35-38
junk_titles ==
  {<<"s", "a", "m", "p", "l", "e">>, <<"v", "i", "d", "e", "o", " ", "s", "a", "m", "p", "l", "e">>,
   <<"d", "e", "l", "e", "t", "e", "d", " ", "s", "c", "e", "n", "e", "s">>,
   <<"f", "e", "a", "t", "u", "r", "e", "t", "t", "e">>, <<"n", "o", "s", "t", "a", "l", "g", "i", "a">>,
   <<"w", "a", "n", "d", "e", "r", "l", "u", "s", "t">>}

\* sanitizer_service.py:66
default_junk ==
  {<<"4", "k">>, <<"1", "0", "8", "0", "p">>, <<"7", "2", "0", "p">>, <<"u", "h", "d">>, <<"b", "l", "u", "r", "a", "y">>,
   <<"w", "e", "b", "-", "d", "l">>, <<"w", "e", "b", "r", "i", "p">>, <<"x", "2", "6", "4">>, <<"x", "2", "6", "5">>, <<"h", "e", "v", "c">>}

\* sanitizer_service.py:40-42   ^.+\s\(\d{4}\)$
IsNormalizedFilename(stem) ==
  LET n == Len(stem) IN
  /\ n >= 8
  /\ stem[n] = ")"
  /\ IsDigits(SubSeq(stem, n - 4, n - 1))
  /\ stem[n - 5] = "("
  /\ IsSpace(stem[n - 6])

\* sanitizer_service.py:44-51   ^(.*?)\s\((\d{4})\)$ ; year 0 stands for None
ParseNormalizedFilename(stem) ==
  LET n == Len(stem) IN
  IF /\ n >= 7
     /\ stem[n] = ")"
     /\ IsDigits(SubSeq(stem, n - 4, n - 1))
     /\ stem[n - 5] = "("
     /\ IsSpace(stem[n - 6])
    THEN [ok |-> TRUE, title |-> SubSeq(stem, 1, n - 7), year |-> ToInt(SubSeq(stem, n - 4, n - 1))]
    ELSE [ok |-> FALSE, title |-> <<>>, year |-> 0]

\* \b(19\d{2}|20\d{2})\b matches at position i of s
YearAt(s, i) ==
  /\ i + 3 <= Len(s)
  /\ SubSeq(s, i, i + 1) \in {<<"1", "9">>, <<"2", "0">>}
  /\ IsDigits(SubSeq(s, i + 2, i + 3))
  /\ (i = 1 \/ ~IsWordChar(s[i - 1]))
  /\ (i + 3 = Len(s) \/ ~IsWordChar(s[i + 4]))

\* start of the first match of re.search, 0 when there is none
FirstYear(s) ==
  LET hits == {i \in DOMAIN s : YearAt(s, i)}
  IN IF hits = {} THEN 0 ELSE CHOOSE i \in hits : \A j \in hits : i <= j

\* re.sub(r"[\._\[\]\(\)-]", " ", s)
SubSeparators(s) ==
  [k \in DOMAIN s |-> IF s[k] \in {".", "_", "[", "]", "(", ")", "-"} THEN " " ELSE s[k]]

\* re.sub(r"[\(\[].*?[\)\]]", "", s)
RECURSIVE RemoveBracketed(_)
RemoveBracketed(s) ==
  LET opens == {k \in DOMAIN s : s[k] \in {"(", "["}}
      i == IF opens = {} THEN 0 ELSE CHOOSE k \in opens : \A j \in opens : k <= j
      closes == {k \in DOMAIN s : k > i /\ s[k] \in {")", "]"}}
      e == IF closes = {} THEN 0 ELSE CHOOSE k \in closes : \A j \in closes : k <= j
  IN IF i = 0 \/ e = 0 THEN s
     ELSE SubSeq(s, 1, i - 1) \o RemoveBracketed(SubSeq(s, e + 1, Len(s)))

\* sanitizer_service.py:71
IsYearDigit(t) ==
  IsDigits(t) /\ Len(t) = 4 /\ SubSeq(t, 1, 2) \in {<<"1", "9">>, <<"2", "0">>}

TitleKeepingLearnedJunk(clean_name, words) ==
  LET Keep(t) == Lower(t) \notin default_junk /\ ~IsYearDigit(t)
  IN Strip(Join(SelectSeq(Split(RemoveBracketed(SubSeparators(clean_name))), Keep)))
\* Lines 62-75: the title left of a name cut before its year
Title(clean_name, words) ==
  LET Keep(t) == Lower(t) \notin (words \cup default_junk) /\ ~IsYearDigit(t)
  IN Strip(Join(SelectSeq(Split(RemoveBracketed(SubSeparators(clean_name))), Keep)))

\* int(year_match.group(0)) for a match at position at of s, 0 for no match
YearFrom(s, at) == IF at > 0 THEN ToInt(SubSeq(s, at, at + 3)) ELSE 0

\* Lines 82-89
TitleAndYear(title, year) ==
  IF title = <<>> \/ Lower(title) \in junk_titles
    THEN [ok |-> FALSE, title |-> <<>>, year |-> 0]
    ELSE [ok |-> TRUE, title |-> title, year |-> year]

\* Lines 56-80, the year pattern matching stem at position at (0: nowhere)
ParseStem(filename, stem, at, words) ==
  IF at > 0
    THEN TitleAndYear(Title(SubSeq(stem, 1, at - 1), words), YearFrom(stem, at))
    ELSE TitleAndYear(Title(stem, words), YearFrom(filename, FirstYear(filename)))

\* sanitizer_service.py:53-89 ; year 0 stands for None
ParseFilename(filename, words) ==
  ParseStem(filename, Stem(filename), FirstYear(Stem(filename)), words)

\* file_system_manager.py:40-43
RECURSIVE SubIllegalRuns(_, _)
SubIllegalRuns(s, inRun) ==
  IF s = <<>> THEN <<>>
  ELSE IF s[1] \in {"<", ">", ":", "\"", "/", "\\", "|", "?", "*"}
    THEN (IF inRun THEN <<>> ELSE <<" ">>) \o SubIllegalRuns(Tail(s), TRUE)
    ELSE <<s[1]>> \o SubIllegalRuns(Tail(s), FALSE)

prepare_movie_folder_name(title, release_date) ==
  LET year_str == IF Len(release_date) >= 4 THEN SubSeq(release_date, 1, 4) ELSE <<"N", "/", "A">>
      folder_name == title \o <<" ", "(">> \o year_str \o <<")">>
  IN Strip(SubIllegalRuns(folder_name, FALSE))

\* ------------------------------------------------------------- the catalog
\* The movies of the metadata catalog, as search_movie returns them.
Catalog ==
  {[id |-> 1, title |-> <<"A">>, release_date |-> <<"2", "0", "2", "0", "-", "0", "5", "-", "0", "1">>],
   [id |-> 2, title |-> <<"B">>, release_date |-> <<"2", "0", "2", "1", "-", "0", "7", "-", "0", "9">>],
   [id |-> 3, title |-> <<"T">>, release_date |-> <<>>]}

\* The lower-cased query titles for which each movie is the best match.
BestMatchFor(id) ==
  IF id = 1 THEN {<<"a">>}
  ELSE IF id = 2 THEN {<<"b">>}
  ELSE {<<"t">>, <<"t", " ", "n", " ", "a">>}

ReleaseYear(m) ==
  IF Len(m.release_date) >= 4 THEN ToInt(SubSeq(m.release_date, 1, 4)) ELSE 0

NoMovie == [id |-> 0, title |-> <<>>, release_date |-> <<>>]

\* TMDbService.search_movie(title, year): a single lookup returning zero
\* (NoMovie) or one best match; year 0 stands for None.
search_movie(title, year) ==
  LET hits == {m \in Catalog : /\ Lower(title) \in BestMatchFor(m.id)
                               /\ (year = 0 \/ ReleaseYear(m) = 0 \/ ReleaseYear(m) = year)}
  IN IF hits = {} THEN NoMovie ELSE CHOOSE m \in hits : TRUE

\* ------------------------------------------------------------ JunkService
\* junk_service.py:20-25
JunkScanForVideos(F) == {p \in F : Lower(Suffix(Name(p))) \in video_extensions}

\* junk_service.py:27-32
TokenizeFilename(filename) ==
  LET tokens == Split(SubSeparators(Stem(filename)))
  IN {Lower(tokens[k]) : k \in {j \in DOMAIN tokens : Len(tokens[j]) > 2 /\ ~IsDigits(tokens[j])}}

JunkWordsAtThreshold(unnormalized) ==
  LET Count(t) == Cardinality({p \in unnormalized : t \in TokenizeFilename(Name(p))})
  IN {t \in UNION {TokenizeFilename(Name(p)) : p \in unnormalized} :
        Count(t) * 5 >= Cardinality(unnormalized) /\ Count(t) > 1}

\* junk_service.py:65-71: the tokens of more than a fifth of the
\* unnormalized files, and of more than one
JunkWords(unnormalized) ==
  LET Count(t) == Cardinality({p \in unnormalized : t \in TokenizeFilename(Name(p))})
  IN {t \in UNION {TokenizeFilename(Name(p)) : p \in unnormalized} :
        Count(t) * 5 > Cardinality(unnormalized) /\ Count(t) > 1}

LearnedReturningNothing(cache, words) ==
  [words |-> {},
   cache |-> IF words # {}
               THEN [exists |-> TRUE, readable |-> TRUE, words |-> words]
               ELSE cache]
\* junk_service.py:73-83: the words are returned, and saved when there are any
Learned(cache, words) ==
  [words |-> words,
   cache |-> IF words # {}
               THEN [exists |-> TRUE, readable |-> TRUE, words |-> words]
               ELSE cache]

\* junk_service.py:61-63
LearnFrom(cache, unnormalized) ==
  IF Cardinality(unnormalized) < 5
    THEN [words |-> {}, cache |-> cache]
    ELSE Learned(cache, JunkWords(unnormalized))

LearnWithoutMinimum(cache, scanned) ==
  LearnFrom(cache, {p \in scanned : ~IsNormalizedFilename(Stem(Name(p)))})
\* junk_service.py:45-57
Learn(cache, scanned) ==
  IF Cardinality(scanned) < 10
    THEN [words |-> {}, cache |-> cache]
    ELSE LearnFrom(cache, {p \in scanned : ~IsNormalizedFilename(Stem(Name(p)))})

\* junk_service.py:37-42: the cache file is returned as it is when no rebuild
\* is forced, the file exists and json.load reads it (readable); a file that
\* raises JSONDecodeError or IOError is reported and the set is learned anew.
CacheReusedAlways(force_rebuild, cache) == cache.exists /\ cache.readable
CacheReused(force_rebuild, cache) ==
  ~force_rebuild /\ cache.exists /\ cache.readable

\* junk_service.py:35-83: the returned words and the cache file afterwards.
\* A cache is [exists, readable, words].
build_junk_cache(force_rebuild, cache, F) ==
  IF CacheReused(force_rebuild, cache)
    THEN [words |-> cache.words, cache |-> cache]
    ELSE Learn(cache, JunkScanForVideos(F))

\* ------------------------------------------------ the library on the disk
\* Files a library may hold before the first run.
\* A movie folder in canonical form that was put into a collection folder.
InCollection ==
  <<<<"c">>, <<"A", " ", "(", "2", "0", "2", "0", ")">>, <<"A", " ", "(", "2", "0", "2", "0", ")", ".", "m", "k", "v">>>>

Pool ==
  {<<<<"b", ".", "2", "0", "2", "1", ".", "m", "k", "v">>>>,
   <<<<"x">>, <<"b", ".", "2", "0", "2", "1", ".", "m", "k", "v">>>>,
   <<<<"B", " ", "(", "2", "0", "2", "1", ")">>, <<"b", ".", "2", "0", "2", "1", ".", "m", "k", "v">>>>,
   <<<<"A", " ", "(", "2", "0", "2", "0", ")">>, <<"A", " ", "(", "2", "0", "2", "0", ")", ".", "m", "k", "v">>>>,
   <<<<"A", " ", "(", "2", "0", "2", "0", ")">>, <<"b", ".", "2", "0", "2", "1", ".", "m", "k", "v">>>>,
   <<<<"B", " ", "(", "2", "0", "2", "1", ")">>, <<"B", " ", "(", "2", "0", "2", "1", ")", "-", "t", "r", "a", "i", "l", "e", "r", ".", "m", "p", "4">>>>,
   <<<<"c">>, <<"d">>, <<"b", ".", "2", "0", "2", "1", ".", "m", "k", "v">>>>,
   <<<<"S", "a", "m", "p", "l", "e", ".", "m", "k", "v">>>>,
   <<<<"T", " ", "(", "N", " ", "A", ")">>, <<"T", " ", "(", "N", " ", "A", ")", ".", "m", "k", "v">>>>,
   <<<<"x">>, <<"a", "_", "r", "i", "p", ".", "2", "0", "2", "0", ".", "M", "K", "V">>>>,
   InCollection}

Libraries == {F \in SUBSET Pool : Cardinality(F) <= MaxFiles}

\* The folders that hold the files of F.
FoldersOf(F) == UNION {{SubSeq(p, 1, k) : k \in 1..(Len(p) - 1)} : p \in F}

JunkCaches ==
  {[exists |-> FALSE, readable |-> FALSE, words |-> {}],
   [exists |-> TRUE, readable |-> TRUE, words |-> {<<"r", "i", "p">>}]}

EmptyIndex == <<>>

\* library.json before the first run: absent, or left by an earlier use of
\* the library with an entry that names the file of InCollection.
Indexes(F) ==
  {EmptyIndex} \cup
  {[id \in {1} |-> [title |-> <<"A">>, year |-> <<"2", "0", "2", "0">>, file_path |-> p]] :
     p \in F \cap {InCollection}}

\* The orders in which rglob may yield the files of S.
Orders(S) ==
  {s \in [1..Cardinality(S) -> S] : \A i, j \in 1..Cardinality(S) : s[i] = s[j] => i = j}

\* ------------------------------------------------------------------ Init
SanInit ==
  /\ \E F \in Libraries : files = F /\ dirs = FoldersOf(F)
  /\ junk_cache \in JunkCaches
  /\ index_file \in Indexes(files)
  /\ san_pc = "idle"
  /\ junk_words = {}
  /\ library_cache = EmptyIndex
  /\ video_files = <<>>
  /\ operations = <<>>
  /\ op_next = 1
  /\ cache_updated_with_clean_files = FALSE
  /\ outcomes = <<>>
  /\ run_log = <<>>
  /\ scanned_disk = <<files, dirs>>
  /\ answer = NotAsked
  /\ op_log = <<>>
  \* the pipeline stands still
  /\ failures = 0
  /\ env = [i \in Movies |-> "fail"]
  /\ known_failures = {}
  /\ dry_run = FALSE
  /\ create_backdrop = FALSE
  /\ ignore_failures = FALSE
  /\ root_under_cwd = TRUE
  /\ fut = [i \in Movies |-> "cancelled"]
  /\ mainpc = "returned"
  /\ consumed = {}
  /\ ff_shutdown = TRUE
  /\ ff_queue = <<>>
  /\ ff_running = {}
  /\ ff_done = {}
  /\ tripped = FALSE
  /\ pendingAtTrip = {}
  /\ broke = FALSE
  /\ pendingAtBreak = {}
  /\ dlFailed = {}
  /\ dlSucceeded = {}
  /\ dl = DlStart
  /\ dlCallNo = 0
  /\ FnAtRest
  /\ StatsAtRest
  /\ AppAtRest

\* -------------------------------------------------- SanitizerService.run
\* sanitizer_service.py:91-101
ScanForVideos(F) ==
  {p \in F : /\ Lower(Suffix(Name(p))) \in video_extensions
             /\ ~Contains(Stem(Name(p)), <<"-", "t", "r", "a", "i", "l", "e", "r">>)
             /\ Name(p) # <<"l", "i", "b", "r", "a", "r", "y", ".", "j", "s", "o", "n">>}

Entry(movie_data, file_path) ==
  [title |-> movie_data.title,
   year |-> SubSeq(movie_data.release_date, 1, IF Len(movie_data.release_date) < 4 THEN Len(movie_data.release_date) ELSE 4),
   file_path |-> file_path]

\* cache[movie_id] = entry
Upsert(cache, id, entry) ==
  [k \in DOMAIN cache \cup {id} |-> IF k = id THEN entry ELSE cache[k]]

\* The classification without the second branch of lines 208-210.
OpTypeNeverInPlace(source_folder, dest_folder) ==
  IF source_folder = Root THEN "move_file" ELSE "rename_folder"

\* sanitizer_service.py:204-213
OpType(source_folder, dest_folder) ==
  IF source_folder = Root THEN "move_file"
  ELSE IF source_folder = dest_folder THEN "rename_file_in_place"
  ELSE "rename_folder"

\* What the loop body decides for one file.
Outcome(kind, file_path, movie_data, dest_file) ==
  [kind |-> kind, file |-> file_path, movie_data |-> movie_data, dest_file |-> dest_file]

\* Lines 160-169
Cataloged(file_path, movie_data) ==
  IF movie_data = NoMovie
    THEN Outcome("unmatched", file_path, NoMovie, <<>>)
    ELSE Outcome("canonical", file_path, movie_data, <<>>)

\* Lines 156-174
ClassifyCanonical(file_path, parsed_data) ==
  IF ~parsed_data.ok
    THEN Outcome("unparseable", file_path, NoMovie, <<>>)
    ELSE Cataloged(file_path, search_movie(parsed_data.title, parsed_data.year))

\* Lines 193-201
PlanInto(file_path, movie_data, new_folder_name) ==
  LET dest_file == <<new_folder_name, new_folder_name \o Suffix(Name(file_path))>>
  IN IF file_path = dest_file
       THEN Outcome("same_path", file_path, movie_data, dest_file)
       ELSE Outcome("planned", file_path, movie_data, dest_file)

\* Lines 185-192
Plan(file_path, movie_data) ==
  IF movie_data = NoMovie
    THEN Outcome("unmatched", file_path, NoMovie, <<>>)
    ELSE PlanInto(file_path, movie_data,
                  prepare_movie_folder_name(movie_data.title, movie_data.release_date))

\* Lines 177-184
ClassifyMessy(file_path, parsed_data) ==
  IF ~parsed_data.ok
    THEN Outcome("unparseable", file_path, NoMovie, <<>>)
    ELSE Plan(file_path, search_movie(parsed_data.title, parsed_data.year))

ClassifyAtAnyDepth(file_path, cache, words) ==
  IF \E id \in DOMAIN cache : cache[id].file_path = file_path
    THEN Outcome("cataloged", file_path, NoMovie, <<>>)
  ELSE IF /\ IsNormalizedFilename(Stem(Name(file_path)))
          /\ Stem(Name(file_path)) = ParentName(file_path)
    THEN ClassifyCanonical(file_path, ParseNormalizedFilename(Stem(Name(file_path))))
  ELSE ClassifyMessy(file_path, ParseFilename(Name(file_path), words))

\* sanitizer_service.py:138-224
Classify(file_path, cache, words) ==
  IF Len(file_path) > 2
    THEN Outcome("collection", file_path, NoMovie, <<>>)
  ELSE IF \E id \in DOMAIN cache : cache[id].file_path = file_path
    THEN Outcome("cataloged", file_path, NoMovie, <<>>)
  ELSE IF /\ IsNormalizedFilename(Stem(Name(file_path)))
          /\ Stem(Name(file_path)) = ParentName(file_path)
    THEN ClassifyCanonical(file_path, ParseNormalizedFilename(Stem(Name(file_path))))
  ELSE ClassifyMessy(file_path, ParseFilename(Name(file_path), words))

\* sanitizer_service.py:216-223
Operation(c) ==
  [op_type |-> OpType(Parent(c.file), Parent(c.dest_file)),
   source_file |-> c.file,
   source_folder |-> Parent(c.file),
   dest_folder |-> Parent(c.dest_file),
   dest_file |-> c.dest_file,
   movie_data |-> c.movie_data]

sanFsUnchanged == UNCHANGED <<files, dirs>>
sanHistUnchanged == UNCHANGED <<scanned_disk, answer, op_log>>
sanOtherUnchanged == UNCHANGED <<pipeVars, dlVars, appVars, fnVars, statVars>>

\* The run is over: what it planned and whether it got to apply it.
Logged(executed, declined) ==
  Append(run_log, [nops |-> Len(operations), executed |-> executed, declined |-> declined])

\* Lines 121-133: junk words, the index, the scan.
SanRun ==
  /\ san_pc = "idle"
  /\ \E junk \in {build_junk_cache(FALSE, junk_cache, files)} :
       /\ junk_words' = junk.words
       /\ junk_cache' = junk.cache
  /\ library_cache' = index_file
  /\ operations' = <<>>
  /\ op_next' = 1
  /\ cache_updated_with_clean_files' = FALSE
  /\ outcomes' = <<>>
  /\ IF ScanForVideos(files) = {}
       THEN /\ video_files' = <<>>
            /\ san_pc' = "done"
            /\ run_log' = Append(run_log, [nops |-> 0, executed |-> FALSE, declined |-> FALSE])
       ELSE /\ video_files' \in Orders(ScanForVideos(files))
            /\ san_pc' = "scan"
            /\ UNCHANGED run_log
  /\ scanned_disk' = <<files, dirs>>
  /\ answer' = NotAsked
  /\ op_log' = <<>>
  /\ UNCHANGED index_file
  /\ sanFsUnchanged /\ sanOtherUnchanged

\* Lines 137-224: one iteration of the loop over video_files.
SanScanFile ==
  /\ san_pc = "scan"
  /\ video_files # <<>>
  /\ \E c \in {Classify(Head(video_files), library_cache, junk_words)} :
       /\ outcomes' = Append(outcomes, c)
       /\ library_cache' = IF c.kind = "canonical"
                             THEN Upsert(library_cache, c.movie_data.id, Entry(c.movie_data, c.file))
                             ELSE library_cache
       /\ cache_updated_with_clean_files' = (cache_updated_with_clean_files \/ c.kind = "canonical")
       /\ operations' = IF c.kind = "planned" THEN Append(operations, Operation(c)) ELSE operations
  /\ video_files' = Tail(video_files)
  /\ UNCHANGED <<san_pc, junk_words, junk_cache, index_file, op_next, run_log>>
  /\ sanFsUnchanged /\ sanHistUnchanged /\ sanOtherUnchanged

\* Lines 226-232 and 255: after the loop; is_dry_run() answers `simulate`.
SanPlanned(simulate) ==
  /\ san_pc = "scan"
  /\ video_files = <<>>
  /\ IF operations # <<>>
       THEN /\ san_pc' = IF simulate THEN "confirm" ELSE "apply"
            /\ UNCHANGED <<index_file, run_log>>
       ELSE /\ san_pc' = "done"
            /\ index_file' = IF cache_updated_with_clean_files THEN library_cache ELSE index_file
            /\ run_log' = Logged(FALSE, FALSE)
  /\ UNCHANGED <<junk_words, junk_cache, library_cache, video_files, operations, op_next,
                 cache_updated_with_clean_files, outcomes>>
  /\ sanFsUnchanged /\ sanHistUnchanged /\ sanOtherUnchanged

\* What the user may type at the prompt "Proceed with changes? (y/n): ".
Answers == {<<"y">>, <<"Y", " ">>, <<"n">>}

ConfirmsAnything(typed) == TRUE

\* Line 273: console.input(...).strip().lower() == 'y'
Confirms(typed) == Lower(Strip(typed)) = <<"y">>

\* Lines 256-275: the plan is shown and the user answers the prompt.
SanConfirm(typed) ==
  /\ san_pc = "confirm"
  /\ answer' = typed
  /\ IF Confirms(typed)
       THEN san_pc' = "apply" /\ UNCHANGED run_log
       ELSE san_pc' = "done" /\ run_log' = Logged(FALSE, TRUE)
  /\ UNCHANGED <<junk_words, junk_cache, index_file, library_cache, video_files, operations,
                 op_next, cache_updated_with_clean_files, outcomes, scanned_disk, op_log>>
  /\ sanFsUnchanged /\ sanOtherUnchanged

\* ------------------------------------ SanitizerService._run_file_operations
\* Each result is [files, dirs, ok, how]: the disk afterwards, whether the
\* end of the try block was reached (ok), and how the body ended: it
\* returned, it raised, or it left the iteration by "continue".
Raised(F, D) == [files |-> F, dirs |-> D, ok |-> FALSE, how |-> "raised"]
Returned(F, D) == [files |-> F, dirs |-> D, ok |-> TRUE, how |-> "returned"]
Skipped(F, D) == [files |-> F, dirs |-> D, ok |-> FALSE, how |-> "skipped"]

\* Path.mkdir(parents=True, exist_ok=True) of a folder of the root
Mkdir(folder, F, D) ==
  IF folder \in F THEN Raised(F, D) ELSE Returned(F, D \cup {folder})

\* shutil.move(src, dst) of a file
MoveFile(src, dst, F, D) ==
  LET real_dst == IF dst \in D THEN dst \o <<Name(src)>> ELSE dst IN
  IF dst \in D /\ real_dst \in F \cup D THEN Raised(F, D)
  ELSE IF src \notin F THEN Raised(F, D)
  ELSE IF Parent(real_dst) \notin D \cup {Root} THEN Raised(F, D)
  ELSE Returned((F \ {src}) \cup {real_dst}, D)

\* shutil.move(src, dst) of a folder to a path that does not exist
MoveFolder(src, dst, F, D) ==
  LET Moved(p) == IF p = src \/ IsUnder(p, src)
                    THEN dst \o SubSeq(p, Len(src) + 1, Len(p))
                    ELSE p
  IN IF src \notin D THEN Raised(F, D)
     ELSE Returned({Moved(p) : p \in F}, {Moved(d) : d \in D})

\* Path.rename(target) of a file
Rename(old, new, F, D) ==
  IF old \notin F \/ new \in D \/ Parent(new) \notin D \cup {Root}
    THEN Raised(F, D)
    ELSE Returned((F \ {old}) \cup {new}, D)

\* Lines 288-289, the folder made or not
MoveIntoFolder(op, made) ==
  IF made.ok
    THEN MoveFile(op.source_file, op.dest_file, made.files, made.dirs)
    ELSE made

\* Lines 302-306, the folder moved or not
RenameInNewHome(op, moved) ==
  IF moved.ok /\ op.dest_folder \o <<Name(op.source_file)>> # op.dest_file
    THEN Rename(op.dest_folder \o <<Name(op.source_file)>>, op.dest_file,
                moved.files, moved.dirs)
    ELSE moved

DestinationNeverExists(dest_folder, F, D) == FALSE

\* Line 294: "if dest_folder.exists()"
DestinationExists(dest_folder, F, D) == dest_folder \in F \cup D

\* Lines 286-312: the body of the try block for one operation.
ApplyOperation(op, F, D) ==
  IF op.op_type = "move_file"
    THEN MoveIntoFolder(op, Mkdir(op.dest_folder, F, D))
  ELSE IF op.op_type = "rename_folder"
    THEN IF DestinationExists(op.dest_folder, F, D)
           THEN Skipped(F, D)
           ELSE RenameInNewHome(op, MoveFolder(op.source_folder, op.dest_folder, F, D))
  ELSE MoveFile(op.source_file, op.dest_file, F, D)

CacheAfterAnyOutcome(cache, op, done) ==
  Upsert(cache, op.movie_data.id, Entry(op.movie_data, op.dest_file))

\* Lines 314-320: the entry is written as the last statement of the try
\* block, so only when nothing raised and the iteration was not left.
CacheAfter(cache, op, done) ==
  IF done.ok
    THEN Upsert(cache, op.movie_data.id, Entry(op.movie_data, op.dest_file))
    ELSE cache

\* Lines 281-324: one iteration of the loop over the operations.
SanApplyOp ==
  /\ san_pc = "apply"
  /\ op_next <= Len(operations)
  /\ \E op \in {operations[op_next]}, done \in {ApplyOperation(operations[op_next], files, dirs)} :
        /\ files' = done.files
        /\ dirs' = done.dirs
        /\ library_cache' = CacheAfter(library_cache, op, done)
        /\ op_log' = Append(op_log, done.how)
  /\ op_next' = op_next + 1
  /\ UNCHANGED <<san_pc, junk_words, junk_cache, index_file, video_files, operations,
                 cache_updated_with_clean_files, outcomes, run_log, scanned_disk, answer>>
  /\ sanOtherUnchanged

\* Line 326: the index is saved after the last operation.
SanSave ==
  /\ san_pc = "apply"
  /\ op_next > Len(operations)
  /\ index_file' = library_cache
  /\ san_pc' = "done"
  /\ run_log' = Logged(TRUE, FALSE)
  /\ UNCHANGED <<junk_words, junk_cache, library_cache, video_files, operations, op_next,
                 cache_updated_with_clean_files, outcomes>>
  /\ sanFsUnchanged /\ sanHistUnchanged /\ sanOtherUnchanged

\* The Sanitizer is started again on what the last run left.
SanAgain ==
  /\ san_pc = "done"
  /\ Len(run_log) < MaxRuns
  /\ san_pc' = "idle"
  /\ UNCHANGED <<junk_words, junk_cache, index_file, library_cache, video_files, operations,
                 op_next, cache_updated_with_clean_files, outcomes, run_log>>
  /\ sanFsUnchanged /\ sanHistUnchanged /\ sanOtherUnchanged

SanNext ==
  \/ SanRun
  \/ SanScanFile
  \/ \E simulate \in BOOLEAN : SanPlanned(simulate)
  \/ \E typed \in Answers : SanConfirm(typed)
  \/ SanApplyOp
  \/ SanSave
  \/ SanAgain

SpecSan == SanInit /\ [][SanNext]_vars

\* ------------------------------------------------------- sanitizer claims
\* C8: when a run that was not declined is followed by another run with no
\* change in between, the second run plans no operation.
C8_SecondRunPlansNothing ==
  \A k \in 1..(Len(run_log) - 1) : ~run_log[k].declined => run_log[k + 1].nops = 0

\* C9: when a run that executed its operations has returned, every entry of
\* the saved library index has a file_path that is an existing file.
C9_IndexedFilesExist ==
  (san_pc = "done" /\ run_log[Len(run_log)].executed) =>
    \A id \in DOMAIN index_file : index_file[id].file_path \in files

\* C10: a resolved file whose path equals its destination path gets no
\* operation; any other resolved file gets exactly one, of kind move_file
\* when its folder is the root, rename_file_in_place when its folder is the
\* destination folder, rename_folder otherwise.
C10_OperationKind ==
  \A k \in DOMAIN outcomes :
    LET o == outcomes[k]
        S == Parent(o.file)
        D == Parent(o.dest_file)
        mine == {j \in DOMAIN operations : operations[j].source_file = o.file}
    IN o.movie_data # NoMovie /\ o.kind # "canonical" =>
         IF o.file = o.dest_file THEN mine = {}
         ELSE /\ Cardinality(mine) = 1
              /\ \A j \in mine :
                   /\ operations[j].dest_file = o.dest_file
                   /\ S = Root => operations[j].op_type = "move_file"
                   /\ (S # Root /\ S = D) => operations[j].op_type = "rename_file_in_place"
                   /\ (S # Root /\ S # D) => operations[j].op_type = "rename_folder"

C10_Witness ==
  /\ san_pc = "done"
  /\ \E k \in DOMAIN outcomes : outcomes[k].kind = "same_path"
  /\ \E j \in DOMAIN operations : operations[j].op_type = "rename_file_in_place"
  /\ \E j \in DOMAIN operations : operations[j].op_type = "rename_folder"

\* C11: when an operation of the plan raises, the index entry of its movie is
\* neither created nor changed by it, and the batch goes on: every step of
\* the loop attempts exactly the next operation of the plan, the run stays in
\* the loop, and it has attempted every operation when it is over.
C11_FailureIsolated ==
  /\ [](san_pc = "done" /\ op_log # <<>> => Len(op_log) = Len(operations))
  /\ [][(san_pc = "apply" /\ op_next <= Len(operations)) =>
          /\ op_next' = op_next + 1
          /\ Len(op_log') = op_next
          /\ san_pc' = "apply"
          /\ operations' = operations
          /\ op_log'[op_next] = "raised" =>
               LET id == operations[op_next].movie_data.id IN
               /\ (id \in DOMAIN library_cache') = (id \in DOMAIN library_cache)
               /\ id \in DOMAIN library_cache => library_cache'[id] = library_cache[id]]_vars

C11_Witness ==
  /\ san_pc = "done"
  /\ \E k, j \in DOMAIN op_log : k < j /\ op_log[k] = "raised" /\ op_log[j] = "returned"

\* C12: a rename_folder operation whose destination folder exists when it is
\* executed changes neither the disk nor the index, and the loop goes on to
\* the next operation.
C12_ExistingDestinationSkips ==
  [][(/\ san_pc = "apply" /\ op_next <= Len(operations)
      /\ operations[op_next].op_type = "rename_folder"
      /\ operations[op_next].dest_folder \in files \cup dirs) =>
       /\ files' = files /\ dirs' = dirs
       /\ library_cache' = library_cache /\ index_file' = index_file
       /\ op_next' = op_next + 1 /\ san_pc' = "apply" /\ operations' = operations]_vars

C12_Witness ==
  /\ san_pc = "done"
  /\ \E k, j \in DOMAIN op_log : k < j /\ op_log[k] = "skipped" /\ op_log[j] = "returned"

\* C13 (as stated): nothing on the disk changes before the prompt is
\* answered, and when the answer is anything other than "y" no planned
\* operation is applied.
C13_OnlyLiteralYApplies ==
  /\ san_pc \in {"scan", "confirm"} => <<files, dirs>> = scanned_disk
  /\ (answer # NotAsked /\ answer # <<"y">>) =>
       /\ <<files, dirs>> = scanned_disk
       /\ op_log = <<>>

\* C13 (amended): nothing on the disk changes before the prompt is answered,
\* and when the answer, stripped of surrounding blanks and lower-cased, is
\* anything other than "y", no planned operation is applied and the run is
\* over.
C13_DeclinedAppliesNothing ==
  /\ san_pc \in {"scan", "confirm"} => <<files, dirs>> = scanned_disk
  /\ (answer # NotAsked /\ Lower(Strip(answer)) # <<"y">>) =>
       /\ <<files, dirs>> = scanned_disk
       /\ op_log = <<>>
       /\ san_pc \in {"done", "idle"}

C13_Witness ==
  /\ san_pc = "done"
  /\ answer = <<"n">>
  /\ operations # <<>>

\* C14: when the user declines the prompt of a run that planned at least
\* one operation, the entries that run made for already-canonical files are
\* in the saved index.
C14_DeclinedRunSavesFastPath ==
  (san_pc = "done" /\ run_log[Len(run_log)].declined) =>
    \A k \in DOMAIN outcomes :
      outcomes[k].kind = "canonical" =>
        /\ outcomes[k].movie_data.id \in DOMAIN index_file
        /\ index_file[outcomes[k].movie_data.id] = Entry(outcomes[k].movie_data, outcomes[k].file)

\* C15: a file the run found unparseable or unmatched is, when the run is
\* over, still at the path it was scanned at.
C15_UnresolvedFilesStay ==
  san_pc = "done" =>
    \A k \in DOMAIN outcomes :
      outcomes[k].kind \in {"unparseable", "unmatched"} => outcomes[k].file \in files

\* =================================== the actions that run the pipeline
\* One MediaManager lives through several top-level actions: failures and
\* known_failures are set in __init__ only (lines 30 and 33).
\* mainpc = "menu": no top-level action is running.

\* _load_known_failures: the set is replaced by the content of the file
\* when there is one.
LoadOrForget(file, known) == IF file.exists THEN file.ids ELSE {}

LoadNothing(file, known) == known

LoadKnownFailures(file, known) == IF file.exists THEN file.ids ELSE known

SaveNothing(file, known) == file

\* _save_known_failures: an empty set is not written.
SaveKnownFailures(file, known) ==
  IF known = {} THEN file ELSE [exists |-> TRUE, ids |-> known]

\* The lists of movies a top-level action may hand to the pipeline.
Batches == {{}, {i \in Movies : 2 * i <= NMovies}, {i \in Movies : 2 * i > NMovies}}

\* The known-failures file an earlier process may have left.
InitialFiles == {NoFile, [exists |-> TRUE, ids |-> {}], [exists |-> TRUE, ids |-> {1}]}

AppInit ==
  /\ failures = 0
  /\ known_failures = {}
  /\ env \in Environments
  /\ dry_run = FALSE
  /\ create_backdrop \in BOOLEAN
  /\ ignore_failures = FALSE
  /\ root_under_cwd \in BOOLEAN
  /\ fut = [i \in Movies |-> "none"]
  /\ mainpc = "menu"
  /\ consumed = {}
  /\ ff_shutdown = TRUE
  /\ ff_queue = <<>>
  /\ ff_running = {}
  /\ ff_done = {}
  /\ tripped = FALSE
  /\ pendingAtTrip = {}
  /\ broke = FALSE
  /\ pendingAtBreak = {}
  /\ dlFailed = {}
  /\ dlSucceeded = {}
  /\ dl = DlStart
  /\ dlCallNo = 0
  /\ FnAtRest
  /\ StatsAtRest
  /\ SanAtRest
  /\ failures_file \in InitialFiles
  /\ file_before = failures_file
  /\ writes = 0
  /\ invocation = 0

\* _process_movies_pipeline up to the submission of the download tasks
\* (lines 476-506); with no movie it returns at once (lines 477-479).
\* is_dry_run() answers `simulate` during the invocation.
StartPipeline(S, simulate) ==
  /\ dry_run' = simulate
  /\ fut' = [i \in Movies |-> IF i \in S THEN "pending" ELSE "none"]
  /\ mainpc' = IF S = {} THEN "returned" ELSE "collect"
  /\ consumed' = {}
  /\ ff_shutdown' = (S = {})
  /\ ff_queue' = <<>>
  /\ ff_running' = {}
  /\ ff_done' = {}
  /\ tripped' = FALSE
  /\ pendingAtTrip' = {}
  /\ broke' = FALSE
  /\ pendingAtBreak' = {}
  /\ dlFailed' = {}
  /\ dlSucceeded' = {}
  /\ UNCHANGED <<failures, create_backdrop, ignore_failures, root_under_cwd, env, dl, dlCallNo>>

\* A top-level action starts: what it records before anything else.
ActionStarts ==
  /\ mainpc = "menu"
  /\ invocation < MaxInvocations
  /\ invocation' = invocation + 1
  /\ file_before' = failures_file
  /\ writes' = 0
  /\ UNCHANGED <<failures_file, sanVars, fnVars, statVars>>

\* fetch_trailers_for_existing_movies, lines 91-117, S the movies of the
\* index without a trailer: the action returns before the load when there
\* is none.
FetchExisting(S, simulate) ==
  /\ S # {}
  /\ ActionStarts
  /\ known_failures' = LoadKnownFailures(failures_file, known_failures)
  /\ StartPipeline(S, simulate)

\* fetch_upcoming_movie_trailers, lines 121-146, S the movies left by
\* _filter_existing_movies.
FetchUpcoming(S, simulate) ==
  /\ ActionStarts
  /\ known_failures' = LoadKnownFailures(failures_file, known_failures)
  /\ StartPipeline(S, simulate)

\* fetch_upcoming_movie_trailers when fetch_movies finds nothing
\* (lines 126-135): the load, then return.
FetchUpcomingNothing ==
  /\ ActionStarts
  /\ known_failures' = LoadKnownFailures(failures_file, known_failures)
  /\ UNCHANGED <<failures, dry_run, create_backdrop, ignore_failures, root_under_cwd, env, fut, mainpc, consumed,
                 ff_shutdown, ff_queue, ff_running, ff_done, tripped, pendingAtTrip,
                 broke, pendingAtBreak, dlFailed, dlSucceeded, dl, dlCallNo>>

PipelineNotAwaited == mainpc \in {"after_loop", "ff_join", "dl_join", "returned"}

\* Lines 117-118 and 146-147: _save_known_failures is the statement after
\* the call of _process_movies_pipeline.
PipelineReturned == mainpc = "returned"

\* Lines 118 and 147, then the action returns.
CallerSave ==
  /\ PipelineReturned
  /\ failures_file' = SaveKnownFailures(failures_file, known_failures)
  /\ writes' = IF known_failures = {} THEN writes ELSE writes + 1
  /\ mainpc' = "menu"
  /\ UNCHANGED <<failures, known_failures, dry_run, create_backdrop, ignore_failures, root_under_cwd, env, fut, consumed,
                 ff_shutdown, ff_queue, ff_running, ff_done, tripped, pendingAtTrip,
                 broke, pendingAtBreak, dlFailed, dlSucceeded, dl, dlCallNo>>
  /\ UNCHANGED <<file_before, invocation, sanVars, fnVars, statVars>>

\* _clear_caches, choice 3 (lines 324-325), and _safe_delete_cache.
ClearKnownFailures ==
  /\ mainpc = "menu"
  /\ failures_file.exists
  /\ failures_file' = NoFile
  /\ UNCHANGED <<pipeVars, dlVars, sanVars, fnVars, statVars, file_before, writes, invocation>>

AppNext ==
  \/ PipeNext
  \/ \E S \in Batches, simulate \in BOOLEAN : FetchExisting(S, simulate)
  \/ \E S \in Batches, simulate \in BOOLEAN : FetchUpcoming(S, simulate)
  \/ FetchUpcomingNothing
  \/ CallerSave
  \/ ClearKnownFailures

SpecApp == AppInit /\ [][AppNext]_vars

\* ================================================= known-failures claims
\* C16: a download task whose movie id is in known_failures when it starts
\* ends at once with the result "known failure": it never enters
\* download_trailer, leaves the failure counter, the known-failures set and
\* the post-processing queue as they are, and records neither a failed nor
\* a successful download.
C16_KnownFailureDoesNothing ==
  /\ [](\A i \in Movies : fut[i] = "r_known" =>
          /\ i \in known_failures
          /\ i \notin dlFailed \cup dlSucceeded
          /\ \A j \in FfAccepted : j[1] # i)
  /\ [][\A i \in Movies :
          (fut[i] = "pending" /\ i \in known_failures /\ fut'[i] \notin {"pending", "cancelled"}) =>
             /\ fut'[i] = "r_known"
             /\ UNCHANGED <<failures, known_failures, ff_queue, ff_running, ff_done,
                            dlFailed, dlSucceeded, tripped>>]_vars

C16_Witness ==
  /\ ~dry_run
  /\ \E i \in Movies : fut[i] = "r_known"
  /\ \E i \in Movies : fut[i] = "r_failed"

\* C17: a top-level action writes the known-failures file at most once; when
\* it writes, every download task of its pipeline invocation has finished or
\* been cancelled, and the written set is the whole known-failures set, with
\* every id a worker added during the invocation; nothing else but the
\* cache-clear action changes the file.
C17_SavedOnceAfterDrain ==
  /\ [](writes <= 1)
  /\ [][writes' = writes + 1 =>
          /\ \A i \in Movies : fut[i] \in FinishedStates \cup {"none"}
          /\ failures_file'.exists
          /\ failures_file'.ids = known_failures
          /\ {i \in Movies : fut[i] \in {"r_nokey", "r_failed"}} \subseteq failures_file'.ids]_vars
  /\ [][failures_file' # failures_file => (writes' = writes + 1 \/ failures_file' = NoFile)]_vars

C17_Witness ==
  /\ writes = 1 /\ mainpc = "menu"
  /\ \E i \in Movies : fut[i] = "r_failed" /\ i \in failures_file.ids /\ i \notin file_before.ids
  /\ \E i \in Movies : fut[i] = "r_nokey" /\ i \in failures_file.ids /\ i \notin file_before.ids
  /\ \E i \in Movies : fut[i] = "x_other"

\* C18: when the failure budget has tripped in a pipeline invocation, the
\* invocation is never stuck before it has returned to its caller, the
\* caller then leaves the known failures accumulated so far in the file,
\* and afterwards the next top-level action can be started.
C18_TripConfinedToInvocation ==
  /\ [](tripped /\ mainpc # "menu" => ENABLED (PipeNext \/ CallerSave))
  /\ [](tripped /\ mainpc = "menu" /\ invocation < MaxInvocations =>
          /\ ENABLED FetchUpcomingNothing
          /\ ENABLED (\E S \in Batches, simulate \in BOOLEAN : FetchExisting(S, simulate)))
  /\ [][(tripped /\ mainpc = "returned" /\ mainpc' # "returned") =>
          /\ mainpc' = "menu"
          /\ known_failures' = known_failures
          /\ failures_file'.ids = known_failures
          /\ known_failures # {} => failures_file'.exists]_vars

C18_Witness ==
  /\ tripped /\ broke /\ mainpc = "menu"
  /\ invocation < MaxInvocations
  /\ failures_file.exists
  /\ failures_file.ids = known_failures
  /\ failures_file.ids # file_before.ids

\* C19: the known-failures set never loses an id, and the known-failures
\* file loses ids in the cache-clear action only: every other step leaves in
\* the file at least the ids it held, so the set persisted after a run is a
\* superset of the set persisted before it.
C19_KnownFailuresOnlyGrow ==
  /\ [](mainpc = "menu" /\ failures_file.exists /\ writes = 1 =>
          file_before.ids \subseteq failures_file.ids)
  /\ [][known_failures \subseteq known_failures']_vars
  /\ [][\/ failures_file.ids \subseteq failures_file'.ids
        \/ mainpc = "menu" /\ mainpc' = "menu" /\ failures_file' = NoFile
                           /\ invocation' = invocation]_vars

C19_Witness ==
  /\ mainpc = "menu" /\ invocation > 1 /\ writes = 1
  /\ file_before.ids # {}
  /\ file_before.ids \subseteq failures_file.ids
  /\ file_before.ids # failures_file.ids

\* ===================================== JunkService.build_junk_cache alone
\* The decimal digits of k < 100.
NumStr(k) ==
  LET d(v) == <<"0", "1", "2", "3", "4", "5", "6", "7", "8", "9">>[v + 1]
  IN IF k < 10 THEN <<d(k)>> ELSE <<d(k \div 10), d(k % 10)>>

\* A library of a files "k.rip.mkv", b files "x/k.RIP.web.rip.AVI" (the
\* tag twice, in two cases, and a second tag), c files "k.mkv" without any
\* word, e files "rip k (2020).mkv" in canonical form, and one text file.
JunkLibrary(a, b, c, e) ==
  {<<NumStr(k) \o <<".", "r", "i", "p", ".", "m", "k", "v">>>> : k \in 1..a}
  \cup {<<<<"x">>, NumStr(k) \o <<".", "R", "I", "P", ".", "w", "e", "b", ".", "r", "i", "p", ".", "A", "V", "I">>>> : k \in 1..b}
  \cup {<<NumStr(k) \o <<".", "m", "k", "v">>>> : k \in 1..c}
  \cup {<<<<"r", "i", "p", " ">> \o NumStr(k) \o <<" ", "(", "2", "0", "2", "0", ")", ".", "m", "k", "v">>>> : k \in 1..e}
  \cup {<<<<"n", "o", "t", "e", ".", "t", "x", "t">>>>}

JunkLibraries ==
  {JunkLibrary(a, b, c, e) : a \in 0..MaxTagged, b \in 0..MaxTagged,
                             c \in 0..MaxPlain, e \in 0..MaxPlain}

\* The cache file before the first call: absent, written by an earlier
\* learning, or present with a content json.load cannot read.
JunkCacheFiles ==
  JunkCaches \cup {[exists |-> TRUE, readable |-> FALSE, words |-> {}]}

JunkInit ==
  /\ files \in JunkLibraries
  /\ dirs = FoldersOf(files)
  /\ junk_cache \in JunkCacheFiles
  /\ index_file = EmptyIndex
  /\ san_pc = "idle"
  /\ junk_words = {}
  /\ library_cache = EmptyIndex
  /\ video_files = <<>>
  /\ operations = <<>>
  /\ op_next = 1
  /\ cache_updated_with_clean_files = FALSE
  /\ outcomes = <<>>
  /\ run_log = <<>>
  /\ scanned_disk = <<files, dirs>>
  /\ answer = NotAsked
  /\ op_log = <<>>
  \* the pipeline stands still
  /\ failures = 0
  /\ env = [i \in Movies |-> "fail"]
  /\ known_failures = {}
  /\ dry_run = FALSE
  /\ create_backdrop = FALSE
  /\ ignore_failures = FALSE
  /\ root_under_cwd = TRUE
  /\ fut = [i \in Movies |-> "cancelled"]
  /\ mainpc = "returned"
  /\ consumed = {}
  /\ ff_shutdown = TRUE
  /\ ff_queue = <<>>
  /\ ff_running = {}
  /\ ff_done = {}
  /\ tripped = FALSE
  /\ pendingAtTrip = {}
  /\ broke = FALSE
  /\ pendingAtBreak = {}
  /\ dlFailed = {}
  /\ dlSucceeded = {}
  /\ dl = DlStart
  /\ dlCallNo = 0
  /\ FnAtRest
  /\ StatsAtRest
  /\ AppAtRest

\* One call of build_junk_cache(force_rebuild) (junk_service.py:35-83), the
\* first or the second of two calls in succession. san_pc keeps which call it
\* was and how it was made: "learned" / "rebuilt" after the first call without
\* / with force_rebuild, "learned again" / "rebuilt again" after the second.
JunkLearn(force_rebuild) ==
  /\ san_pc \in {"idle", "learned", "rebuilt"}
  /\ \E junk \in {build_junk_cache(force_rebuild, junk_cache, files)} :
       /\ junk_words' = junk.words
       /\ junk_cache' = junk.cache
  /\ san_pc' = IF san_pc = "idle"
                THEN (IF force_rebuild THEN "rebuilt" ELSE "learned")
                ELSE (IF force_rebuild THEN "rebuilt again" ELSE "learned again")
  /\ UNCHANGED <<index_file, library_cache, video_files, operations, op_next,
                 cache_updated_with_clean_files, outcomes, run_log>>
  /\ sanFsUnchanged /\ sanHistUnchanged /\ sanOtherUnchanged

JunkNext == \E force_rebuild \in BOOLEAN : JunkLearn(force_rebuild)

SpecJunk == JunkInit /\ [][JunkNext]_vars

\* C20: when the learner learns (no cache to reuse, at least 10 video files,
\* at least 5 of them unnormalized), a token is in the resulting junk set if
\* and only if the number of unnormalized files whose tokens hold it, each
\* file counted once, is greater than a fifth of the number of unnormalized
\* files and greater than 1; the set holds nothing but tokens.
C20_JunkIffFrequent ==
  [][LET videos == {p \in files : Lower(Suffix(Name(p))) \in video_extensions}
         unnormalized == {p \in videos : ~IsNormalizedFilename(Stem(Name(p)))}
         n == Cardinality(unnormalized)
         with(t) == Cardinality({p \in unnormalized : t \in TokenizeFilename(Name(p))})
         tokens == {<<"r", "i", "p">>, <<"w", "e", "b">>, <<"a", "v", "i">>, <<"n", "o", "t", "e">>}
     IN (/\ san_pc = "idle" /\ san_pc' = "learned"
         /\ ~junk_cache.exists /\ Cardinality(videos) >= 10 /\ n >= 5) =>
          /\ junk_words' \subseteq tokens
          /\ \A t \in tokens : t \in junk_words' <=> (5 * with(t) > n /\ with(t) > 1)]_vars

C20_Witness ==
  /\ san_pc = "learned"
  /\ junk_words = {<<"r", "i", "p">>}
  /\ junk_cache = [exists |-> TRUE, readable |-> TRUE, words |-> {<<"r", "i", "p">>}]
  /\ Cardinality({p \in files : Contains(Name(p), <<"w", "e", "b">>)}) = 2
  /\ Cardinality({p \in files : Contains(Name(p), <<".", "r", "i", "p", ".", "m", "k", "v">>)}) = 1

\* C21 as stated: whatever the cache file holds, a call on a library with
\* fewer than 10 video files or fewer than 5 unnormalized video files returns
\* the empty set.
C21_SmallLibraryLearnsNothing ==
  [][LET videos == {p \in files : Lower(Suffix(Name(p))) \in video_extensions}
         unnormalized == {p \in videos : ~IsNormalizedFilename(Stem(Name(p)))}
     IN (/\ san_pc = "idle" /\ san_pc' \in {"learned", "rebuilt"}
         /\ (Cardinality(videos) < 10 \/ Cardinality(unnormalized) < 5)) =>
          junk_words' = {}]_vars

\* C21, amended: a call that does not return the cache file (a rebuild is
\* forced, or the file is absent or unreadable) returns the empty set, and
\* leaves the cache file as it was, whenever the library holds fewer than 10
\* video files or fewer than 5 unnormalized video files, whatever their names.
C21_SmallLibraryLearnsNothingAnew ==
  [][LET videos == {p \in files : Lower(Suffix(Name(p))) \in video_extensions}
         unnormalized == {p \in videos : ~IsNormalizedFilename(Stem(Name(p)))}
     IN (/\ san_pc = "idle" /\ san_pc' \in {"learned", "rebuilt"}
         /\ (san_pc' = "rebuilt" \/ ~junk_cache.exists \/ ~junk_cache.readable)
         /\ (Cardinality(videos) < 10 \/ Cardinality(unnormalized) < 5)) =>
          junk_words' = {} /\ junk_cache' = junk_cache]_vars

\* Nine video files, six of them tagged "rip", and a forced rebuild over a
\* cache that holds a word: nothing is learned.
C21_Witness ==
  /\ san_pc = "rebuilt"
  /\ junk_words = {}
  /\ junk_cache.exists /\ junk_cache.readable
  /\ Cardinality({p \in files : Lower(Suffix(Name(p))) \in video_extensions}) = 9
  /\ Cardinality({p \in files : Contains(Lower(Name(p)), <<"r", "i", "p">>)
                                /\ ~IsNormalizedFilename(Stem(Name(p)))}) = 6

\* C22: a second call of build_junk_cache made in the same way right after
\* the first, on an unchanged library, returns the set the first call returned
\* and, like the first, leaves the files and folders of the library alone,
\* whether the cache file was absent, readable or unreadable before the first.
C22_SecondCallReturnsTheSame ==
  [][(\/ san_pc = "idle"
      \/ san_pc = "learned" /\ san_pc' = "learned again"
      \/ san_pc = "rebuilt" /\ san_pc' = "rebuilt again") =>
       /\ files' = files /\ dirs' = dirs
       /\ san_pc # "idle" => junk_words' = junk_words]_vars

\* Two calls in a row where the first learned and saved "rip" and "web" (no
\* cache holds both words before the first call) and the second returned them.
C22_Witness ==
  /\ san_pc = "learned again"
  /\ junk_words = {<<"r", "i", "p">>, <<"w", "e", "b">>}
  /\ junk_cache = [exists |-> TRUE, readable |-> TRUE, words |-> junk_words]

\* C30: a call without force_rebuild on a readable cache file returns the
\* words of the file whatever the library holds and leaves the file as it is;
\* a forced call, or a call on an unreadable file, returns what the current
\* library gives (nothing below 10 videos or 5 unnormalized ones, else the
\* tokens of more than a fifth of the unnormalized files and of more than
\* one), and the cache file is written, with that set, only when the set is
\* not empty.
C30_CacheReturnedOrRecomputed ==
  [][LET videos == {p \in files : Lower(Suffix(Name(p))) \in video_extensions}
         unnormalized == {p \in videos : ~IsNormalizedFilename(Stem(Name(p)))}
         n == Cardinality(unnormalized)
         with(t) == Cardinality({p \in unnormalized : t \in TokenizeFilename(Name(p))})
         tokens == {<<"r", "i", "p">>, <<"w", "e", "b">>}
         recomputed == IF Cardinality(videos) < 10 \/ n < 5
                         THEN {}
                         ELSE {t \in tokens : 5 * with(t) > n /\ with(t) > 1}
     IN /\ (san_pc = "idle" /\ san_pc' = "learned"
            /\ junk_cache.exists /\ junk_cache.readable) =>
             junk_words' = junk_cache.words /\ junk_cache' = junk_cache
        /\ (/\ san_pc = "idle"
            /\ junk_cache.exists
            /\ san_pc' = "rebuilt" \/ (san_pc' = "learned" /\ ~junk_cache.readable)) =>
             /\ junk_words' = recomputed
             /\ junk_cache' = IF recomputed = {}
                                THEN junk_cache
                                ELSE [exists |-> TRUE, readable |-> TRUE,
                                      words |-> recomputed]]_vars

\* A forced rebuild over a cache file that held "rip" (the only readable
\* content before a call) found "rip" and "web" and wrote them.
C30_Witness ==
  /\ san_pc = "rebuilt"
  /\ junk_words = {<<"r", "i", "p">>, <<"w", "e", "b">>}
  /\ junk_cache = [exists |-> TRUE, readable |-> TRUE, words |-> junk_words]
  /\ Cardinality({p \in files : Contains(Name(p), <<"w", "e", "b">>)}) = 3

\* ==================================== functions of the services on their own
\* _parse_filename and _parse_normalized_filename (sanitizer_service.py),
\* prepare_movie_folder_name (file_system_manager.py) and get_trailer_key
\* (tmdb_service.py) keep no state: each is called here on arguments drawn
\* from bounded sets, and what it returned is kept in returned.

RECURSIVE Concat(_)
Concat(parts) == IF parts = <<>> THEN <<>> ELSE Head(parts) \o Concat(Tail(parts))

\* Every text made of at most MaxPieces of the given pieces.
TextsOf(pieces) ==
  {Concat(parts) : parts \in UNION {[1..n -> pieces] : n \in 1..MaxPieces}}

\* File names as a library holds them: words, a word in capitals that the
\* learner may have learned, a default junk word, a number that reads as a
\* year, years in brackets, a placeholder title, a year after an underscore
\* and an extension.
FileNames ==
  TextsOf({<<"A">>,
           <<" ", "B">>,
           <<".", "R", "I", "P">>,
           <<".", "4", "k">>,
           <<" ", "2", "0", "4", "9">>,
           <<" ", "(", "2", "0", "1", "7", ")">>,
           <<" ", "(", "1", "8", "5", "0", ")">>,
           <<"S", "a", "m", "p", "l", "e">>,
           <<"_", "2", "0", "1", "7">>,
           <<".", "m", "k", "v">>})

\* Junk-word sets as build_junk_cache returns them (lower-case tokens).
LearnedWords == {{}, {<<"r", "i", "p">>}}

\* Titles and release dates as the catalog gives them.
MovieTitles == TextsOf({<<"A">>, <<" ">>, <<":">>, <<"?", "b">>, <<"/">>})
ReleaseDates == {<<>>, <<"2", "0", "2">>, <<"2", "0", "2", "0", "-", "0", "5", "-", "0", "1">>}

\* The "results" of a videos response: each descriptor has a site, a type,
\* the official flag (absent reads as False, line 104) and a key, here its
\* position in the response.
VideoLists ==
  UNION {{[k \in 1..n |-> [site |-> d[k][1], type |-> d[k][2], official |-> d[k][3], key |-> k]] :
            d \in [1..n -> {"YouTube", "Vimeo"} \X {"Trailer", "Teaser", "Clip"} \X BOOLEAN]} :
         n \in 0..MaxVideos}

\* tmdb_service.py:92-97 and 105; 0 stands for None (no such combination)
priorities(v_type, v_official) ==
  IF v_type = "Trailer" THEN (IF v_official THEN 1 ELSE 2)
  ELSE IF v_type = "Teaser" THEN (IF v_official THEN 3 ELSE 4)
  ELSE 0

\* tmdb_service.py:99 ; its key 0 stands for None
NoVideo == [site |-> "", type |-> "", official |-> FALSE, key |-> 0]

BestVideoLastWins(youtube_videos, best_video, lowest_priority, priority) ==
  IF priority # 0 /\ priority <= lowest_priority
    THEN <<youtube_videos[1], priority>>
    ELSE <<best_video, lowest_priority>>
\* tmdb_service.py:107-109: the first video of the list against the best so far
BestVideo(youtube_videos, best_video, lowest_priority, priority) ==
  IF priority # 0 /\ priority < lowest_priority
    THEN <<youtube_videos[1], priority>>
    ELSE <<best_video, lowest_priority>>

\* tmdb_service.py:102-109: the loop over youtube_videos
RECURSIVE BestVideoOf(_, _)
BestVideoOf(youtube_videos, best) ==
  IF youtube_videos = <<>>
    THEN best[1]
    ELSE BestVideoOf(Tail(youtube_videos),
                BestVideo(youtube_videos, best[1], best[2],
                          priorities(youtube_videos[1].type, youtube_videos[1].official)))

\* tmdb_service.py:81-115 for a response that arrived; lowest_priority starts
\* at float('inf'), here 5, above every priority
get_trailer_key(videos) ==
  LET OnYouTube(v) == v.site = "YouTube"
  IN BestVideoOf(SelectSeq(videos, OnYouTube), <<NoVideo, 5>>).key

FnInit ==
  /\ \/ \E f \in FileNames, w \in LearnedWords :
          call = [filename |-> f, junk_words |-> w, title |-> <<>>,
                  release_date |-> <<>>, videos |-> <<>>]
     \/ \E t \in MovieTitles, d \in ReleaseDates :
          call = [filename |-> <<>>, junk_words |-> {}, title |-> t,
                  release_date |-> d, videos |-> <<>>]
     \/ \E v \in VideoLists :
          call = [filename |-> <<>>, junk_words |-> {}, title |-> <<>>,
                  release_date |-> <<>>, videos |-> v]
  /\ returned = <<>>
  /\ SanAtRest
  /\ AppAtRest
  /\ StatsAtRest
  \* the pipeline stands still
  /\ failures = 0
  /\ env = [i \in Movies |-> "fail"]
  /\ known_failures = {}
  /\ dry_run = FALSE
  /\ create_backdrop = FALSE
  /\ ignore_failures = FALSE
  /\ root_under_cwd = TRUE
  /\ fut = [i \in Movies |-> "cancelled"]
  /\ mainpc = "returned"
  /\ consumed = {}
  /\ ff_shutdown = TRUE
  /\ ff_queue = <<>>
  /\ ff_running = {}
  /\ ff_done = {}
  /\ tripped = FALSE
  /\ pendingAtTrip = {}
  /\ broke = FALSE
  /\ pendingAtBreak = {}
  /\ dlFailed = {}
  /\ dlSucceeded = {}
  /\ dl = DlStart
  /\ dlCallNo = 0

\* The function named fn is called and returns value.
Returns(fn, value) ==
  /\ fn \notin DOMAIN returned
  /\ returned' = (fn :> value) @@ returned
  /\ UNCHANGED <<call, pipeVars, dlVars, sanVars, appVars, statVars>>

FnParseFilename ==
  /\ call.filename # <<>>
  /\ Returns("_parse_filename", ParseFilename(call.filename, call.junk_words))

FnParseNormalizedFilename ==
  /\ call.filename # <<>>
  /\ Returns("_parse_normalized_filename", ParseNormalizedFilename(Stem(call.filename)))

FnPrepareMovieFolderName ==
  /\ call.title # <<>>
  /\ Returns("prepare_movie_folder_name",
             prepare_movie_folder_name(call.title, call.release_date))

FnGetTrailerKey ==
  /\ call.filename = <<>> /\ call.title = <<>>
  /\ Returns("get_trailer_key", get_trailer_key(call.videos))

FnNext ==
  \/ FnParseFilename
  \/ FnParseNormalizedFilename
  \/ FnPrepareMovieFolderName
  \/ FnGetTrailerKey

SpecFn == FnInit /\ [][FnNext]_vars

\* C23: whatever the file name and the learned junk words, _parse_filename
\* returns None or a title that is not empty, none of whose
\* whitespace-separated tokens is, in lower case, a learned junk word or a
\* default junk word, and which in lower case is not a junk title.
C23_TitleHoldsNoJunk ==
  "_parse_filename" \in DOMAIN returned =>
    LET parsed == returned["_parse_filename"]
        tokens == Split(parsed.title)
    IN parsed.ok =>
         /\ parsed.title # <<>>
         /\ \A k \in DOMAIN tokens :
              Lower(tokens[k]) \notin call.junk_words \cup default_junk
         /\ Lower(parsed.title) \notin junk_titles

\* "A.RIP.mkv" with the learned word "rip": the title is "A".
C23_Witness ==
  /\ call.filename = <<"A", ".", "R", "I", "P", ".", "m", "k", "v">>
  /\ call.junk_words = {<<"r", "i", "p">>}
  /\ "_parse_filename" \in DOMAIN returned
  /\ returned["_parse_filename"] = [ok |-> TRUE, title |-> <<"A">>, year |-> 0]

\* C24 as stated: on a file name whose stem is in the form "Title (Year)",
\* _parse_normalized_filename and _parse_filename, with any junk words,
\* return the same title and year.
C24_BothPathsAgree ==
  (/\ {"_parse_filename", "_parse_normalized_filename"} \subseteq DOMAIN returned
   /\ IsNormalizedFilename(Stem(call.filename))) =>
     returned["_parse_filename"] = returned["_parse_normalized_filename"]

\* C25 as stated: the folder name ends with the year in brackets, the first
\* four characters of the release date or "N/A" for a date shorter than
\* that, holds none of the characters < > : " / \ | ? * and neither starts
\* nor ends with a space.
C25_FolderNameHasYearAndNoIllegalCharacter ==
  "prepare_movie_folder_name" \in DOMAIN returned =>
    LET name == returned["prepare_movie_folder_name"]
        year == IF Len(call.release_date) >= 4
                  THEN SubSeq(call.release_date, 1, 4)
                  ELSE <<"N", "/", "A">>
        tail == <<"(">> \o year \o <<")">>
    IN /\ Len(name) >= Len(tail)
       /\ SubSeq(name, Len(name) - Len(tail) + 1, Len(name)) = tail
       /\ \A k \in DOMAIN name :
            name[k] \notin {"<", ">", ":", "\"", "/", "\\", "|", "?", "*"}
       /\ name # <<>> => ~IsSpace(name[1]) /\ ~IsSpace(name[Len(name)])

\* C26: get_trailer_key looks at the YouTube entries that are a trailer or a
\* teaser only; it returns None when there is none, and else the key of the
\* entry that comes first in the order official trailer, unofficial trailer,
\* official teaser, unofficial teaser, the earliest of the response among
\* the entries of that rank.
C26_BestTrailerKey ==
  "get_trailer_key" \in DOMAIN returned =>
    LET videos == call.videos
        Rank(k) == IF videos[k].type = "Trailer"
                     THEN (IF videos[k].official THEN 1 ELSE 2)
                     ELSE (IF videos[k].official THEN 3 ELSE 4)
        candidates == {k \in DOMAIN videos :
                         /\ videos[k].site = "YouTube"
                         /\ videos[k].type \in {"Trailer", "Teaser"}}
        key == returned["get_trailer_key"]
    IN IF candidates = {}
         THEN key = 0
         ELSE /\ key \in candidates
              /\ \A k \in candidates :
                   Rank(key) < Rank(k) \/ (Rank(key) = Rank(k) /\ key <= k)

\* An unofficial teaser, an official trailer on another site, then two
\* unofficial trailers on YouTube: the first of the two is returned.
C26_Witness ==
  /\ Len(call.videos) = 3
  /\ call.videos[1].site = "YouTube" /\ call.videos[1].type = "Teaser"
  /\ \A k \in {2, 3} : /\ call.videos[k].site = "YouTube"
                       /\ call.videos[k].type = "Trailer"
                       /\ ~call.videos[k].official
  /\ "get_trailer_key" \in DOMAIN returned
  /\ returned["get_trailer_key"] = 2

\* ========================================= the breaker and the trailer key
\* C27 as stated: with --ignore-failures set, the fifth terminal download
\* failure raises nothing and cancels nothing: no download task ends with
\* the RuntimeError of _increment_failures, the collector never breaks out
\* of its loop and no future is cancelled.
C27_IgnoreFailuresKeepsGoing ==
  ignore_failures =>
    /\ ~tripped /\ ~broke
    /\ \A i \in Movies : fut[i] \notin {"x_budget", "cancelled"}

\* C28: a download task whose trailer key does not resolve adds the movie id
\* to known_failures and returns, leaving the failure counter as it is; for
\* such a movie download_trailer is never called and no post-processing job
\* is ever queued; and the failure counter changes only by one, in the step
\* where download_trailer returns after the tool failed at every attempt.
C28_NoKeyStopsTheItem ==
  [][/\ \A i \in Movies :
          /\ env[i] \in {"nokey", "neterror"} =>
               /\ fut'[i] \in {"none", "pending", "cancelled", "r_known", "r_dry", "r_nokey"}
                             \cup (IF dry_run THEN {"x_other"} ELSE {})
               /\ i \notin dlFailed' \cup dlSucceeded'
               /\ \A k \in DOMAIN ff_queue' : ff_queue'[k][1] # i
               /\ \A job \in ff_running' \cup ff_done' : job[1] # i
          /\ (fut[i] = "pending" /\ fut'[i] = "r_nokey") =>
               /\ env[i] \in {"nokey", "neterror"}
               /\ known_failures' = known_failures \cup {i}
               /\ failures' = failures
     /\ failures' # failures =>
          /\ failures' = failures + 1
          /\ \E i \in Movies : /\ fut[i] = "running" /\ env[i] = "fail"
                               /\ fut'[i] \in {"r_failed", "x_budget"}]_vars

\* A movie without a trailer key has been recorded while the downloads of
\* two others failed: the counter counts those two only.
C28_Witness ==
  /\ \E i \in Movies : /\ fut[i] = "r_nokey" /\ i \in known_failures
                       /\ i \notin dlFailed
  /\ Cardinality(dlFailed) = 2
  /\ failures = 2

\* ================================================== files in collections
\* C29: the step of the scan that meets a video file more than one folder
\* below the root records it as a collection file, with no movie looked up,
\* and neither plans an operation nor touches the index, in memory or on
\* the disk, whatever the name of the file and whatever the index holds.
C29_NestedFileIsSkipped ==
  [][(/\ san_pc = "scan" /\ video_files # <<>>
      /\ Len(Head(video_files)) > 2) =>
       /\ outcomes' = Append(outcomes, [kind |-> "collection", file |-> Head(video_files),
                                        movie_data |-> NoMovie, dest_file |-> <<>>])
       /\ operations' = operations
       /\ library_cache' = library_cache
       /\ cache_updated_with_clean_files' = cache_updated_with_clean_files
       /\ index_file' = index_file]_vars

\* "c/A (2020)/A (2020).mkv", canonical in name and folder and named by an
\* entry of the index, has been met and skipped.
C29_Witness ==
  /\ \E k \in DOMAIN outcomes : /\ outcomes[k].file = InCollection
                                /\ outcomes[k].kind = "collection"
  /\ IsNormalizedFilename(Stem(Name(InCollection)))
  /\ Stem(Name(InCollection)) = ParentName(InCollection)
  /\ \E id \in DOMAIN library_cache : library_cache[id].file_path = InCollection

\* ================================================ the year in a file name
\* C31 as stated: when _parse_filename returns a result for a name whose
\* stem, cut into words at the separators . _ [ ] ( ) - and at whitespace,
\* holds a year-like word (four digits beginning with 19 or 20), the year
\* returned is the first such word and the title is made of the words before
\* it that are not junk, joined by spaces: no word at or after the first
\* year-like word is in the title.
C31_FirstYearCutsTheName ==
  LET words == Split(SubSeparators(Stem(call.filename)))
      years == {k \in DOMAIN words : IsYearDigit(words[k])}
  IN (/\ "_parse_filename" \in DOMAIN returned
      /\ returned["_parse_filename"].ok
      /\ years # {}) =>
       LET first == CHOOSE k \in years : \A j \in years : k <= j
           Keep(t) == Lower(t) \notin call.junk_words \cup default_junk
       IN /\ returned["_parse_filename"].year = ToInt(words[first])
          /\ returned["_parse_filename"].title =
               Join(SelectSeq(SubSeq(words, 1, first - 1), Keep))

\* =========================================== sync_trailers_with_library
\* The library as sync_trailers_with_library may find it: the canonical
\* files of two movies, their trailers, and a trailer in a folder that holds
\* no movie; any of them may be missing.
SyncPool ==
  {<<<<"A", " ", "(", "2", "0", "2", "0", ")">>, <<"A", " ", "(", "2", "0", "2", "0", ")", ".", "m", "k", "v">>>>,
   <<<<"B", " ", "(", "2", "0", "2", "1", ")">>, <<"B", " ", "(", "2", "0", "2", "1", ")", ".", "m", "k", "v">>>>,
   <<<<"A", " ", "(", "2", "0", "2", "0", ")">>, <<"A", " ", "(", "2", "0", "2", "0", ")", "-", "t", "r", "a", "i", "l", "e", "r", ".", "m", "p", "4">>>>,
   <<<<"B", " ", "(", "2", "0", "2", "1", ")">>, <<"B", " ", "(", "2", "0", "2", "1", ")", "-", "t", "r", "a", "i", "l", "e", "r", ".", "m", "p", "4">>>>,
   <<<<"x">>, <<"B", " ", "(", "2", "0", "2", "1", ")", "-", "t", "r", "a", "i", "l", "e", "r", ".", "m", "p", "4">>>>}

\* library.json as the Sanitizer wrote it: an entry for each of the two
\* movies, for one of them, or none.
SyncIndexes ==
  {[id \in ids |-> IF id = 1
                     THEN [title |-> <<"A">>, year |-> <<"2", "0", "2", "0">>,
                           file_path |-> <<<<"A", " ", "(", "2", "0", "2", "0", ")">>, <<"A", " ", "(", "2", "0", "2", "0", ")", ".", "m", "k", "v">>>>]
                     ELSE [title |-> <<"B">>, year |-> <<"2", "0", "2", "1">>,
                           file_path |-> <<<<"B", " ", "(", "2", "0", "2", "1", ")">>, <<"B", " ", "(", "2", "0", "2", "1", ")", ".", "m", "k", "v">>>>]] :
     ids \in SUBSET {1, 2}}

CacheDeletionsOfAll(library, F, D) == DOMAIN library
\* media_manager.py:161-166: the entries whose file_path does not exist
CacheDeletions(library, F, D) ==
  {movie_id \in DOMAIN library : library[movie_id].file_path \notin F \cup D}

\* media_manager.py:168-176: the *-trailer.mp4 files whose folder holds the
\* file of no entry
TrailerDeletions(library, F) ==
  {trailer_path \in F :
     /\ Len(Name(trailer_path)) >= 12
     /\ SubSeq(Name(trailer_path), Len(Name(trailer_path)) - 11, Len(Name(trailer_path)))
          = <<"-", "t", "r", "a", "i", "l", "e", "r", ".", "m", "p", "4">>
     /\ \A movie_id \in DOMAIN library :
          Parent(library[movie_id].file_path) # Parent(trailer_path)}

\* media_manager.py:401-403: the library without the entries to delete
CleanedLibrary(library, cache_deletions) ==
  [movie_id \in DOMAIN library \ cache_deletions |-> library[movie_id]]

\* media_manager.py:393-404, _run_sync_operations: each trailer is unlinked
\* unless unlink raises OSError (failed), then the cleaned library is saved
\* when there is an entry to delete.
RunSyncOperations(library, cache_deletions, trailer_deletions) ==
  /\ \E failed \in SUBSET trailer_deletions :
       files' = files \ (trailer_deletions \ failed)
  /\ index_file' = IF cache_deletions # {}
                     THEN CleanedLibrary(library, cache_deletions)
                     ELSE index_file

syncUnchanged ==
  /\ UNCHANGED <<dirs, junk_cache, junk_words, video_files, operations, op_next,
                 cache_updated_with_clean_files, outcomes, run_log, op_log>>
  /\ sanOtherUnchanged

SyncInit ==
  /\ files \in SUBSET SyncPool
  /\ dirs = FoldersOf(SyncPool)
  /\ index_file \in SyncIndexes
  /\ junk_cache = [exists |-> FALSE, readable |-> FALSE, words |-> {}]
  /\ san_pc = "idle"
  /\ junk_words = {}
  /\ library_cache = EmptyIndex
  /\ video_files = <<>>
  /\ operations = <<>>
  /\ op_next = 1
  /\ cache_updated_with_clean_files = FALSE
  /\ outcomes = <<>>
  /\ run_log = <<>>
  /\ scanned_disk = <<files, dirs>>
  /\ answer = NotAsked
  /\ op_log = <<>>
  /\ AppAtRest
  \* the pipeline stands still
  /\ failures = 0
  /\ env = [i \in Movies |-> "fail"]
  /\ known_failures = {}
  /\ dry_run = FALSE
  /\ create_backdrop = FALSE
  /\ ignore_failures = FALSE
  /\ root_under_cwd = TRUE
  /\ fut = [i \in Movies |-> "cancelled"]
  /\ mainpc = "returned"
  /\ consumed = {}
  /\ ff_shutdown = TRUE
  /\ ff_queue = <<>>
  /\ ff_running = {}
  /\ ff_done = {}
  /\ tripped = FALSE
  /\ pendingAtTrip = {}
  /\ broke = FALSE
  /\ pendingAtBreak = {}
  /\ dlFailed = {}
  /\ dlSucceeded = {}
  /\ dl = DlStart
  /\ dlCallNo = 0
  /\ FnAtRest
  /\ StatsAtRest

\* media_manager.py:149-182 and 378-391: sync_trailers_with_library up to
\* its return or to the prompt of simulation mode; is_dry_run() answers
\* `simulate`.  library.json absent and library.json empty both return.
SyncTrailers(simulate) ==
  /\ san_pc = "idle"
  /\ library_cache' = index_file
  /\ scanned_disk' = <<files, dirs>>
  /\ answer' = NotAsked
  /\ IF \/ index_file = EmptyIndex
        \/ /\ CacheDeletions(index_file, files, dirs) = {}
           /\ TrailerDeletions(index_file, files) = {}
       THEN san_pc' = "in sync" /\ UNCHANGED <<files, index_file>>
     ELSE IF simulate
       THEN san_pc' = "sync prompt" /\ UNCHANGED <<files, index_file>>
     ELSE /\ san_pc' = "synced"
          /\ RunSyncOperations(index_file,
                               CacheDeletions(index_file, files, dirs),
                               TrailerDeletions(index_file, files))
  /\ syncUnchanged

SyncAnswers == Answers \cup {<<"Y">>}

\* media_manager.py:386: console.input(...).lower() == 'y'
SyncConfirms(typed) == Lower(typed) = <<"y">>

\* media_manager.py:386-390: the user answers the prompt.
SyncAnswer(typed) ==
  /\ san_pc = "sync prompt"
  /\ answer' = typed
  /\ IF SyncConfirms(typed)
       THEN /\ san_pc' = "synced"
            /\ RunSyncOperations(library_cache,
                                 CacheDeletions(library_cache, scanned_disk[1], scanned_disk[2]),
                                 TrailerDeletions(library_cache, scanned_disk[1]))
       ELSE /\ san_pc' = "sync aborted"
            /\ UNCHANGED <<files, index_file>>
  /\ UNCHANGED <<library_cache, scanned_disk>>
  /\ syncUnchanged

SyncNext ==
  \/ \E simulate \in BOOLEAN : SyncTrailers(simulate)
  \/ \E typed \in SyncAnswers : SyncAnswer(typed)

SpecSync == SyncInit /\ [][SyncNext]_vars

\* C32: when the sync operations have run (in simulation mode after the
\* answer y, else at once) and an entry named a missing file, library.json
\* holds exactly the entries it held before whose file_path exists, each
\* unchanged; when the user declined, library.json and every file, trailers
\* included, are as they were.
C32_SyncRemovesExactlyTheStaleEntries ==
  LET before == library_cache
      stale == {id \in DOMAIN before :
                  before[id].file_path \notin scanned_disk[1] \cup scanned_disk[2]}
  IN /\ (san_pc = "synced" /\ stale # {}) =>
          /\ DOMAIN index_file = DOMAIN before \ stale
          /\ \A id \in DOMAIN index_file : index_file[id] = before[id]
     /\ san_pc = "sync aborted" =>
          /\ index_file = before
          /\ files = scanned_disk[1] /\ dirs = scanned_disk[2]

\* The file of movie B was missing and a trailer stood in a folder without
\* movie: after the answer "Y" the entry of B is gone, that of A is kept and
\* the trailer is deleted.
C32_Witness ==
  /\ san_pc = "synced" /\ answer = <<"Y">>
  /\ DOMAIN library_cache = {1, 2}
  /\ DOMAIN index_file = {1}
  /\ <<<<"x">>, <<"B", " ", "(", "2", "0", "2", "1", ")", "-", "t", "r", "a", "i", "l", "e", "r", ".", "m", "p", "4">>>> \in scanned_disk[1] \ files

\* ============================== two files of one movie in one Sanitizer run
\* A library that holds one movie more than once: twice in the root, with
\* two extensions, and once in the folder of the movie under a release name.
PairPool ==
  {<<<<"b", ".", "2", "0", "2", "1", ".", "m", "k", "v">>>>,
   <<<<"b", ".", "2", "0", "2", "1", ".", "m", "p", "4">>>>,
   <<<<"B", " ", "(", "2", "0", "2", "1", ")">>, <<"b", ".", "2", "0", "2", "1", ".", "m", "k", "v">>>>,
   <<<<"x">>, <<"a", "_", "r", "i", "p", ".", "2", "0", "2", "0", ".", "M", "K", "V">>>>}

PairLibraries == {F \in SUBSET PairPool : Cardinality(F) <= MaxFiles}

SanPairInit ==
  /\ \E F \in PairLibraries : files = F /\ dirs = FoldersOf(F)
  /\ junk_cache \in JunkCaches
  /\ index_file = EmptyIndex
  /\ san_pc = "idle"
  /\ junk_words = {}
  /\ library_cache = EmptyIndex
  /\ video_files = <<>>
  /\ operations = <<>>
  /\ op_next = 1
  /\ cache_updated_with_clean_files = FALSE
  /\ outcomes = <<>>
  /\ run_log = <<>>
  /\ scanned_disk = <<files, dirs>>
  /\ answer = NotAsked
  /\ op_log = <<>>
  \* the pipeline stands still
  /\ failures = 0
  /\ env = [i \in Movies |-> "fail"]
  /\ known_failures = {}
  /\ dry_run = FALSE
  /\ create_backdrop = FALSE
  /\ ignore_failures = FALSE
  /\ root_under_cwd = TRUE
  /\ fut = [i \in Movies |-> "cancelled"]
  /\ mainpc = "returned"
  /\ consumed = {}
  /\ ff_shutdown = TRUE
  /\ ff_queue = <<>>
  /\ ff_running = {}
  /\ ff_done = {}
  /\ tripped = FALSE
  /\ pendingAtTrip = {}
  /\ broke = FALSE
  /\ pendingAtBreak = {}
  /\ dlFailed = {}
  /\ dlSucceeded = {}
  /\ dl = DlStart
  /\ dlCallNo = 0
  /\ FnAtRest
  /\ StatsAtRest
  /\ AppAtRest

SpecSanPair == SanPairInit /\ [][SanNext]_vars

\* C33: at the end of a run that executed its operations, the destination
\* of every operation that reached the end of its try block is the file_path
\* of an entry of the saved index.
C33_MovedFilesAreIndexed ==
  (san_pc = "done" /\ operations # <<>> /\ Len(op_log) = Len(operations)) =>
    \A k \in DOMAIN op_log :
      op_log[k] = "returned" =>
        \E id \in DOMAIN index_file : index_file[id].file_path = operations[k].dest_file

\* C35: an operation of kind move_file or rename_file_in_place whose
\* destination path is an existing file leaves every file as it is, and when
\* a run is over the library holds as many video files as when the run
\* scanned it.
C35_NoVideoFileIsDestroyed ==
  /\ [][(/\ san_pc = "apply" /\ op_next <= Len(operations)
         /\ operations[op_next].op_type \in {"move_file", "rename_file_in_place"}
         /\ operations[op_next].dest_file \in files) => files' = files]_vars
  /\ [](san_pc = "done" =>
          Cardinality(JunkScanForVideos(files)) = Cardinality(JunkScanForVideos(scanned_disk[1])))

\* ============================================ the failure counter's life
\* C34: no step lowers the failure counter of a MediaManager, whatever
\* top-level action runs; when the counter has reached the limit, a download
\* that ends in a terminal failure, in this or any later invocation of the
\* pipeline, ends its task with the fatal condition and adds nothing to the
\* known failures, so that an invocation started with the counter at the
\* limit has tripped as soon as one of its downloads has failed.
C34_CounterIsNeverReset ==
  /\ [][failures' >= failures]_vars
  /\ [][\A i \in Movies :
          (/\ failures >= FailureLimit
           /\ fut[i] = "running" /\ fut'[i] # "running"
           /\ env[i] # "ok") =>
             /\ fut'[i] = "x_budget"
             /\ tripped'
             /\ failures' = failures + 1
             /\ known_failures' = known_failures]_vars
  /\ [](failures >= FailureLimit /\ (\E i \in Movies : fut[i] \in {"r_failed", "x_budget"})
          => tripped)

\* The third invocation started with the counter at the limit and tripped on
\* its first failed download.
C34_Witness ==
  /\ invocation = 3
  /\ failures > FailureLimit
  /\ tripped /\ mainpc = "menu"
  /\ \A i \in Movies : fut[i] # "r_failed"
  /\ Cardinality({i \in Movies : fut[i] = "x_budget"}) = 1

\* ================================== the known failures after a cache clear
\* C37: the cache-clear action deletes the known-failures file and leaves
\* the known-failures set of the process as it is; a top-level action
\* started while the file is absent keeps the set, its download tasks end
\* with "known failure" for every id of the set, and when its pipeline has
\* returned the file exists again and holds every id of the set.
C37_ClearKeepsTheSetInMemory ==
  /\ [][(mainpc = "menu" /\ failures_file.exists /\ ~failures_file'.exists) =>
          known_failures' = known_failures]_vars
  /\ [][(mainpc = "menu" /\ ~failures_file.exists /\ invocation' = invocation + 1) =>
          known_failures' = known_failures]_vars
  /\ [][\A i \in Movies :
          (/\ ~file_before.exists
           /\ fut[i] = "pending" /\ i \in known_failures
           /\ fut'[i] \notin {"pending", "cancelled"}) => fut'[i] = "r_known"]_vars
  /\ [][(/\ ~file_before.exists /\ known_failures # {}
         /\ mainpc = "returned" /\ mainpc' # "returned") =>
          /\ failures_file'.exists
          /\ known_failures \subseteq failures_file'.ids]_vars

\* The file was cleared after the second action; the third one started
\* without file, skipped an id that only the memory held and wrote it back.
C37_Witness ==
  /\ invocation = 3 /\ mainpc = "menu"
  /\ ~file_before.exists
  /\ failures_file.exists
  /\ \E i \in Movies : fut[i] = "r_known" /\ i \in failures_file.ids

\* ================================================ a download task, simulated
\* C38: in simulation mode a download task of a movie that is no known
\* failure ends with the result "dry-run" (downloaded = false): it never
\* enters download_trailer, and it leaves the failure counter, the
\* known-failures set, the post-processing queue and the records of failed
\* and successful downloads as they are.
C38_DryRunTaskChangesNothing ==
  [][\A i \in Movies :
       (/\ dry_run
        /\ fut[i] = "pending" /\ i \notin known_failures
        /\ fut'[i] \notin {"pending", "cancelled"}) =>
          /\ fut'[i] = "r_dry"
          /\ UNCHANGED <<failures, known_failures, ff_queue, ff_running, ff_done,
                         dlFailed, dlSucceeded, tripped>>]_vars

\* ============================================ what makes a known failure
\* C39: a download task adds a movie id to the known-failures set only when
\* the catalog answered with no eligible trailer or when download_trailer
\* returned false after its attempts; a failed request for the trailer key
\* adds no id.
C39_OnlyNoTrailerOrFailedDownloadIsKnown ==
  [][\A i \in Movies :
       (i \in known_failures' /\ i \notin known_failures) =>
          \/ env[i] = "nokey" /\ fut'[i] = "r_nokey"
          \/ fut[i] = "running" /\ fut'[i] = "r_failed" /\ i \in dlFailed']_vars

\* ================================ the counters of MediaManager._ffmpeg_task
\* The pipeline after its download loop: every download succeeded, the jobs
\* are queued, and the main thread waits in ff_pool.shutdown(wait=True)
\* (line 524) while the ff_pool workers run _ffmpeg_task.
\* "self.stats[key] += 1" (lines 589 and 598) is executed under no lock: it
\* is a load of the item, an addition and a store of the item, and another
\* worker may run between the load and the store.

\* Movies whose download succeeded in the invocation followed here.
Encoded == 1..MaxEncoded

\* The jobs _download_task submitted (lines 568-570), in submission order.
RECURSIVE JobsOf(_, _)
JobsOf(n, backdrop) ==
  IF n = 0 THEN <<>>
  ELSE JobsOf(n - 1, backdrop) \o <<<<n, "placeholder">>>>
         \o (IF backdrop THEN <<<<n, "backdrop">>>> ELSE <<>>)

\* The counter a job of this type increments (lines 589 and 598).
StatKey(task_type) == IF task_type = "placeholder" THEN "placeholders" ELSE "backdrops"

StatsInit ==
  /\ failures = 0
  /\ env = [i \in Movies |-> "ok"]
  /\ known_failures = {}
  /\ dry_run = FALSE
  /\ create_backdrop \in BOOLEAN
  /\ ignore_failures = FALSE
  /\ root_under_cwd = TRUE
  /\ fut = [i \in Movies |-> IF i \in Encoded THEN "r_ok" ELSE "none"]
  /\ mainpc = "ff_join"
  /\ consumed = Encoded
  /\ ff_shutdown = TRUE
  /\ ff_queue = JobsOf(MaxEncoded, create_backdrop)
  /\ ff_running = {}
  /\ ff_done = {}
  /\ tripped = FALSE
  /\ pendingAtTrip = {}
  /\ broke = FALSE
  /\ pendingAtBreak = {}
  /\ dlFailed = {}
  /\ dlSucceeded = Encoded
  /\ dl = DlStart
  /\ dlCallNo = 0
  /\ FnAtRest
  /\ SanAtRest
  /\ failures_file = NoFile
  /\ file_before = failures_file
  /\ writes = 0
  /\ invocation = 1
  /\ stats = [placeholders |-> 0, backdrops |-> 0]
  /\ ff_task = [j \in {ff_queue[k] : k \in DOMAIN ff_queue} |->
                  [pc |-> "queued", ok |-> FALSE, loaded |-> 0]]

statsOtherUnchanged ==
  /\ UNCHANGED <<failures, known_failures, fut, consumed, ff_shutdown, dlFailed, dlSucceeded>>
  /\ histUnchanged /\ cfgUnchanged
  /\ UNCHANGED <<sanVars, appVars, fnVars>>

\* An ff_pool worker takes the oldest queued job and enters _ffmpeg_task
\* (lines 573-580): not a dry run, the encoder is invoked.
StatsTaskStart ==
  /\ ff_queue # <<>>
  /\ Cardinality(ff_running) < MaxFfmpegWorkers
  /\ ff_running' = ff_running \cup {Head(ff_queue)}
  /\ ff_queue' = Tail(ff_queue)
  /\ ff_task' = [ff_task EXCEPT ![Head(ff_queue)].pc = "encoding"]
  /\ UNCHANGED <<stats, ff_done, mainpc>>
  /\ statsOtherUnchanged

\* Lines 581-587 and 590-596: the encoder invocation of job j returns ok;
\* "if ok" leads to the increment, otherwise the task returns.
StatsEncoded(j, ok) ==
  /\ j \in ff_running
  /\ ff_task[j].pc = "encoding"
  /\ ff_task' = [ff_task EXCEPT ![j].ok = ok, ![j].pc = IF ok THEN "load" ELSE "done"]
  /\ ff_running' = IF ok THEN ff_running ELSE ff_running \ {j}
  /\ ff_done' = IF ok THEN ff_done ELSE ff_done \cup {j}
  /\ UNCHANGED <<stats, ff_queue, mainpc>>
  /\ statsOtherUnchanged

\* Lines 589 and 598, first half: the worker loads self.stats[key].
StatsLoad(j) ==
  /\ j \in ff_running
  /\ ff_task[j].pc = "load"
  /\ ff_task' = [ff_task EXCEPT ![j].loaded = stats[StatKey(j[2])], ![j].pc = "store"]
  /\ UNCHANGED <<stats, ff_queue, ff_running, ff_done, mainpc>>
  /\ statsOtherUnchanged

\* Lines 589 and 598, second half: the worker stores the loaded value plus
\* one, and the task returns.
StatsStore(j) ==
  /\ j \in ff_running
  /\ ff_task[j].pc = "store"
  /\ stats' = [stats EXCEPT ![StatKey(j[2])] = ff_task[j].loaded + 1]
  /\ ff_task' = [ff_task EXCEPT ![j].pc = "done"]
  /\ ff_running' = ff_running \ {j}
  /\ ff_done' = ff_done \cup {j}
  /\ UNCHANGED <<ff_queue, mainpc>>
  /\ statsOtherUnchanged

\* Line 524 and the exit of the with block: the workers have drained the
\* queue, every download future is done, the pipeline returns.
StatsPipelineReturns ==
  /\ mainpc = "ff_join"
  /\ ff_queue = <<>> /\ ff_running = {}
  /\ mainpc' = "returned"
  /\ UNCHANGED <<stats, ff_task, ff_queue, ff_running, ff_done>>
  /\ statsOtherUnchanged

StatsNext ==
  \/ StatsTaskStart
  \/ \E j \in ff_running, ok \in BOOLEAN : StatsEncoded(j, ok)
  \/ \E j \in ff_running : StatsLoad(j)
  \/ \E j \in ff_running : StatsStore(j)
  \/ StatsPipelineReturns

SpecStats == StatsInit /\ [][StatsNext]_vars

\* C36: when the pipeline has returned, stats["placeholders"] is the number
\* of placeholder jobs whose encoder invocation succeeded and
\* stats["backdrops"] the number of backdrop jobs whose encoder invocation
\* succeeded, whatever the interleaving of the workers.
C36_NoIncrementIsLost ==
  mainpc = "returned" =>
    /\ stats.placeholders =
         Cardinality({j \in DOMAIN ff_task : j[2] = "placeholder" /\ ff_task[j].ok})
    /\ stats.backdrops =
         Cardinality({j \in DOMAIN ff_task : j[2] = "backdrop" /\ ff_task[j].ok})

====
